---- MODULE Spec2Model ----
(***************************************************************************)
(* Model of expo-text-extractor's unified extraction layer:                *)
(*   src/src/utils/coordinates.ts   coordinate transforms                  *)
(*   src/src/utils/projection.ts    overlay projection helpers             *)
(*   src/src/utils/adapters.ts      option and result adapters             *)
(*   src/unnamed/part_003           extractTextFromImageAdvanced (api)     *)
(*   src/src/index.ts               extractTextFromImage (basic api)       *)
(*                                                                         *)
(* Values.  A JavaScript number is a binary floating-point number with a   *)
(* significand of MantissaBits bits (53 in the engine), written as the     *)
(* rational <<n, d>> in lowest terms with d > 0 that it denotes; every     *)
(* arithmetic operation rounds its exact result to the nearest such number,*)
(* a tie going to the even significand.  A JavaScript string is a sequence *)
(* of one-character strings.  An optional value is Undefined (<<>>) or     *)
(* Some(v) (<<v>>).                                                        *)
(* An object whose keys may be absent is a function from the keys that are *)
(* present to optional values, so that an absent key and a key holding     *)
(* undefined are different objects, as they are for the spread operator.   *)
(***************************************************************************)
EXTENDS Integers, Sequences, FiniteSets, TLC

VARIABLES platform, nativeFns, inv, call, ret

vars == <<platform, nativeFns, inv, call, ret>>

(***************************************************************************)
(* Bounds of the model.                                                    *)
(***************************************************************************)
\* a number carries a significand of this many bits
MantissaBits == 6
\* image widths and heights range over 1..MaxDim
MaxDim == 2
\* normalized (Vision, percent) coordinates range over k/GridDen, k in 0..GridDen
GridDen == 4
\* pixel coordinates handed to the helpers range over k/PixelDen
PixelDen == 2
\* a caller's options object sets at most this many keys
MaxOptionKeys == 2
\* minimum text heights range over 1..MaxTextHeight pixels
MaxTextHeight == 6
\* the image heights they are normalized by range over 1..MaxImageHeight
MaxImageHeight == 13
\* an iOS raw result has at most this many observations and candidates in all
MaxIosNodes == 4
\* an Android raw result has at most this many blocks, lines and elements in all
MaxAndroidNodes == 6

(***************************************************************************)
(* Numbers.                                                                *)
(***************************************************************************)
Abs(n) == IF n < 0 THEN -n ELSE n

RECURSIVE GCD(_, _)
GCD(a, b) == IF b = 0 THEN a ELSE GCD(b, a % b)

\* the rational n/d (d > 0) in lowest terms
Rat(n, d) == LET g == GCD(Abs(n), d) IN <<n \div g, d \div g>>

Num(n) == <<n, 1>>

RECURSIVE Pow2(_)
Pow2(k) == IF k = 0 THEN 1 ELSE 2 * Pow2(k - 1)

\* significands lie in [HalfRadix, Radix)
Radix == Pow2(MantissaBits)

HalfRadix == Pow2(MantissaBits - 1)

PowersOfTwo == {Pow2(k) : k \in 0..(2 * MantissaBits)}

\* m / (d * 2^e) brought into [HalfRadix, Radix), for m, d > 0
RECURSIVE Normalize(_, _, _)
Normalize(m, d, e) ==
    IF m >= Radix * d THEN Normalize(m, 2 * d, e + 1)
    ELSE IF m < HalfRadix * d THEN Normalize(2 * m, d, e - 1)
    ELSE <<m, d, e>>

\* the number nearest to the rational a, a tie going to the even significand;
\* a itself when its significand fits
Fl(a) ==
    IF Abs(a[1]) < Radix /\ a[2] \in PowersOfTwo THEN a
    ELSE LET t == Normalize(Abs(a[1]), a[2], 0)
             q == t[1] \div t[2]
             r == t[1] % t[2]
             significand == IF 2 * r > t[2] \/ (2 * r = t[2] /\ q % 2 = 1)
                            THEN q + 1 ELSE q
             sign == IF a[1] < 0 THEN -1 ELSE 1
         IN  IF t[3] >= 0 THEN Rat(sign * significand * Pow2(t[3]), 1)
             ELSE Rat(sign * significand, Pow2(-t[3]))

Mul(a, b) == Fl(Rat(a[1] * b[1], a[2] * b[2]))

Sub(a, b) == Fl(Rat(a[1] * b[2] - b[1] * a[2], a[2] * b[2]))

\* the values that are not finite: a denominator of 0
Infinity == <<1, 0>>

NegativeInfinity == <<-1, 0>>

NaN == <<0, 0>>

IsFinite(a) == a[2] # 0

\* a / b for finite a and b >= 0; a division by 0 gives Infinity, -Infinity
\* or, for 0 / 0, NaN
Div(a, b) ==
    IF b[1] = 0
    THEN IF a[1] > 0 THEN Infinity ELSE IF a[1] < 0 THEN NegativeInfinity ELSE NaN
    ELSE Fl(Rat(a[1] * b[2], a[2] * b[1]))

\* mutant: Math.floor
MathRound_Floor(a) == Num(a[1] \div a[2])

\* Math.round: the nearest integer, a tie going to the larger one
MathRound(a) == Num((2 * a[1] + a[2]) \div (2 * a[2]))

IsInteger(a) == a[2] = 1

(***************************************************************************)
(* Optional values.                                                        *)
(***************************************************************************)
Undefined == <<>>

Some(v) == <<v>>

(***************************************************************************)
(* src/src/utils/coordinates.ts                                            *)
(***************************************************************************)
\* mutant: the vertical origin is left at the bottom
visionToUnifiedBoundingBox_NoFlip(visionBox, imageSize) ==
    [x |-> MathRound(Mul(visionBox.x, imageSize.width)),
     y |-> MathRound(Mul(visionBox.y, imageSize.height)),
     width |-> MathRound(Mul(visionBox.width, imageSize.width)),
     height |-> MathRound(Mul(visionBox.height, imageSize.height)),
     xPercent |-> visionBox.x,
     yPercent |-> visionBox.y,
     widthPercent |-> visionBox.width,
     heightPercent |-> visionBox.height]

visionToUnifiedBoundingBox(visionBox, imageSize) ==
    LET pixelX == Mul(visionBox.x, imageSize.width)
        pixelWidth == Mul(visionBox.width, imageSize.width)
        pixelHeight == Mul(visionBox.height, imageSize.height)
        pixelY == Sub(Sub(imageSize.height, Mul(visionBox.y, imageSize.height)), pixelHeight)
    IN  [x |-> MathRound(pixelX),
         y |-> MathRound(pixelY),
         width |-> MathRound(pixelWidth),
         height |-> MathRound(pixelHeight),
         xPercent |-> visionBox.x,
         yPercent |-> Sub(Sub(Num(1), visionBox.y), visionBox.height),
         widthPercent |-> visionBox.width,
         heightPercent |-> visionBox.height]

\* mutant: the normalized box is recomputed from the rounded pixel fields
unifiedToVisionBoundingBox_FromPixels(unifiedBox, imageSize) ==
    [x |-> Div(unifiedBox.x, imageSize.width),
     y |-> Sub(Sub(Num(1), Div(unifiedBox.y, imageSize.height)),
               Div(unifiedBox.height, imageSize.height)),
     width |-> Div(unifiedBox.width, imageSize.width),
     height |-> Div(unifiedBox.height, imageSize.height)]

\* mutant: the vertical position is taken from the pixel field
unifiedToVisionBoundingBox_PixelY(unifiedBox, imageSize) ==
    [x |-> unifiedBox.xPercent,
     y |-> Sub(Sub(Num(1), Div(unifiedBox.y, imageSize.height)), unifiedBox.heightPercent),
     width |-> unifiedBox.widthPercent,
     height |-> unifiedBox.heightPercent]

unifiedToVisionBoundingBox(unifiedBox, imageSize) ==
    LET normalizedX == unifiedBox.xPercent
        normalizedWidth == unifiedBox.widthPercent
        normalizedHeight == unifiedBox.heightPercent
        normalizedY == Sub(Sub(Num(1), unifiedBox.yPercent), unifiedBox.heightPercent)
    IN  [x |-> normalizedX, y |-> normalizedY,
         width |-> normalizedWidth, height |-> normalizedHeight]

\* mutant: the box is flipped vertically as a Vision box is
mlkitToUnifiedBoundingBox_Flips(mlkitBox, imageSize) ==
    LET flippedY == Sub(Sub(imageSize.height, mlkitBox.y), mlkitBox.height)
    IN  [x |-> MathRound(mlkitBox.x),
         y |-> MathRound(flippedY),
         width |-> MathRound(mlkitBox.width),
         height |-> MathRound(mlkitBox.height),
         xPercent |-> Div(mlkitBox.x, imageSize.width),
         yPercent |-> Div(flippedY, imageSize.height),
         widthPercent |-> Div(mlkitBox.width, imageSize.width),
         heightPercent |-> Div(mlkitBox.height, imageSize.height)]

\* mutant: a zero dimension is guarded and its percent fields are 0
mlkitToUnifiedBoundingBox_GuardsZero(mlkitBox, imageSize) ==
    LET Percent(v, dim) == IF dim = Num(0) THEN Num(0) ELSE Div(v, dim)
    IN  [x |-> MathRound(mlkitBox.x),
         y |-> MathRound(mlkitBox.y),
         width |-> MathRound(mlkitBox.width),
         height |-> MathRound(mlkitBox.height),
         xPercent |-> Percent(mlkitBox.x, imageSize.width),
         yPercent |-> Percent(mlkitBox.y, imageSize.height),
         widthPercent |-> Percent(mlkitBox.width, imageSize.width),
         heightPercent |-> Percent(mlkitBox.height, imageSize.height)]

mlkitToUnifiedBoundingBox(mlkitBox, imageSize) ==
    [x |-> MathRound(mlkitBox.x),
     y |-> MathRound(mlkitBox.y),
     width |-> MathRound(mlkitBox.width),
     height |-> MathRound(mlkitBox.height),
     xPercent |-> Div(mlkitBox.x, imageSize.width),
     yPercent |-> Div(mlkitBox.y, imageSize.height),
     widthPercent |-> Div(mlkitBox.width, imageSize.width),
     heightPercent |-> Div(mlkitBox.height, imageSize.height)]

mlkitToUnifiedPoints(mlkitPoints, imageSize) ==
    [i \in 1..Len(mlkitPoints) |->
        [x |-> MathRound(mlkitPoints[i].x),
         y |-> MathRound(mlkitPoints[i].y),
         xPercent |-> Div(mlkitPoints[i].x, imageSize.width),
         yPercent |-> Div(mlkitPoints[i].y, imageSize.height)]]

(***************************************************************************)
(* src/src/utils/projection.ts                                             *)
(* pixelCoords and percentCoords carry their optional width and height as  *)
(* optional values; both functions test them with `!== undefined`.         *)
(***************************************************************************)
pixelsToPercent(pixelCoords, imageSize) ==
    LET xPercent == Div(pixelCoords.x, imageSize.width)
        yPercent == Div(pixelCoords.y, imageSize.height)
    IN  IF pixelCoords.width # Undefined /\ pixelCoords.height # Undefined
        THEN [x |-> pixelCoords.x,
              y |-> pixelCoords.y,
              width |-> pixelCoords.width[1],
              height |-> pixelCoords.height[1],
              xPercent |-> xPercent,
              yPercent |-> yPercent,
              widthPercent |-> Div(pixelCoords.width[1], imageSize.width),
              heightPercent |-> Div(pixelCoords.height[1], imageSize.height)]
        ELSE [x |-> pixelCoords.x,
              y |-> pixelCoords.y,
              xPercent |-> xPercent,
              yPercent |-> yPercent]

percentToPixels(percentCoords, imageSize) ==
    LET x == MathRound(Mul(percentCoords.xPercent, imageSize.width))
        y == MathRound(Mul(percentCoords.yPercent, imageSize.height))
    IN  IF percentCoords.widthPercent # Undefined /\ percentCoords.heightPercent # Undefined
        THEN [x |-> x,
              y |-> y,
              width |-> MathRound(Mul(percentCoords.widthPercent[1], imageSize.width)),
              height |-> MathRound(Mul(percentCoords.heightPercent[1], imageSize.height)),
              xPercent |-> percentCoords.xPercent,
              yPercent |-> percentCoords.yPercent,
              widthPercent |-> percentCoords.widthPercent[1],
              heightPercent |-> percentCoords.heightPercent[1]]
        ELSE [x |-> x,
              y |-> y,
              xPercent |-> percentCoords.xPercent,
              yPercent |-> percentCoords.yPercent]

\* mutant: the pixel fields are rescaled from the original image to the overlay
projectToOverlay_ScalesPixels(coords, originalImageSize, overlaySize) ==
    LET x == MathRound(Div(Mul(coords.x, overlaySize.width), originalImageSize.width))
        y == MathRound(Div(Mul(coords.y, overlaySize.height), originalImageSize.height))
    IN  IF "width" \in DOMAIN coords
        THEN [x |-> x,
              y |-> y,
              width |-> MathRound(Div(Mul(coords.width, overlaySize.width),
                                      originalImageSize.width)),
              height |-> MathRound(Div(Mul(coords.height, overlaySize.height),
                                       originalImageSize.height)),
              xPercent |-> coords.xPercent,
              yPercent |-> coords.yPercent,
              widthPercent |-> coords.widthPercent,
              heightPercent |-> coords.heightPercent]
        ELSE [x |-> x, y |-> y, xPercent |-> coords.xPercent, yPercent |-> coords.yPercent]

\* mutant: a box is projected as the point of its top-left corner
projectToOverlay_DropsSize(coords, originalImageSize, overlaySize) ==
    [x |-> MathRound(Mul(coords.xPercent, overlaySize.width)),
     y |-> MathRound(Mul(coords.yPercent, overlaySize.height)),
     xPercent |-> coords.xPercent,
     yPercent |-> coords.yPercent]

\* 'width' in coords tells a bounding box from a point
projectToOverlay(coords, originalImageSize, overlaySize) ==
    IF "width" \in DOMAIN coords
    THEN [x |-> MathRound(Mul(coords.xPercent, overlaySize.width)),
          y |-> MathRound(Mul(coords.yPercent, overlaySize.height)),
          width |-> MathRound(Mul(coords.widthPercent, overlaySize.width)),
          height |-> MathRound(Mul(coords.heightPercent, overlaySize.height)),
          xPercent |-> coords.xPercent,
          yPercent |-> coords.yPercent,
          widthPercent |-> coords.widthPercent,
          heightPercent |-> coords.heightPercent]
    ELSE [x |-> MathRound(Mul(coords.xPercent, overlaySize.width)),
          y |-> MathRound(Mul(coords.yPercent, overlaySize.height)),
          xPercent |-> coords.xPercent,
          yPercent |-> coords.yPercent]

(***************************************************************************)
(* Strings and objects.                                                    *)
(***************************************************************************)
\* Array.prototype.join
RECURSIVE Join(_, _)
Join(strings, sep) ==
    IF strings = <<>> THEN <<>>
    ELSE IF Len(strings) = 1 THEN strings[1]
    ELSE strings[1] \o sep \o Join(Tail(strings), sep)

\* reading a property: an absent key reads as undefined
Get(obj, key) == IF key \in DOMAIN obj THEN obj[key] ELSE Undefined

\* truthiness of an optional number, string, and array or object
TruthyNum(o) == o # Undefined /\ o[1][1] # 0

TruthyStr(o) == o # Undefined /\ o[1] # ""

TruthyObj(o) == o # Undefined

\* { ...a, ...b }: every own key of b, undefined values included, overrides a
Spread(a, b) ==
    [k \in DOMAIN a \cup DOMAIN b |-> IF k \in DOMAIN b THEN b[k] ELSE a[k]]

(***************************************************************************)
(* src/src/utils/adapters.ts                                               *)
(* elapsedMs is the difference of the two Date.now() readings.             *)
(***************************************************************************)
\* mutant: the primary candidate is the last of the list
IosRegion_PrimaryIsLast(observation, imageSize) ==
    LET candidates == [i \in 1..Len(observation.candidates) |->
                          [text |-> observation.candidates[i].text,
                           confidence |-> observation.candidates[i].confidence]]
    IN  [text |-> IF candidates = <<>> THEN <<>> ELSE candidates[Len(candidates)].text,
         candidates |-> candidates,
         boundingBox |-> visionToUnifiedBoundingBox(observation.boundingBox, imageSize),
         confidence |-> IF candidates = <<>> THEN Num(0)
                        ELSE candidates[Len(candidates)].confidence,
         platformData |-> [ios |-> [normalizedBoundingBox |-> observation.boundingBox,
                                    observationType |-> "VNRecognizedTextObservation"]]]

\* mutant: only the primary candidate is kept
IosRegion_BestCandidateOnly(observation, imageSize) ==
    LET all == observation.candidates
        candidates == IF all = <<>> THEN <<>> ELSE <<all[1]>>
    IN  [text |-> IF all = <<>> THEN <<>> ELSE all[1].text,
         candidates |-> candidates,
         boundingBox |-> visionToUnifiedBoundingBox(observation.boundingBox, imageSize),
         confidence |-> IF all = <<>> THEN Num(0) ELSE all[1].confidence,
         platformData |-> [ios |-> [normalizedBoundingBox |-> observation.boundingBox,
                                    observationType |-> "VNRecognizedTextObservation"]]]

IosRegion(observation, imageSize) ==
    LET unifiedBoundingBox == visionToUnifiedBoundingBox(observation.boundingBox, imageSize)
        candidates == [i \in 1..Len(observation.candidates) |->
                          [text |-> observation.candidates[i].text,
                           confidence |-> observation.candidates[i].confidence]]
        primaryCandidate == IF candidates = <<>> THEN Undefined ELSE Some(candidates[1])
    IN  [text |-> IF primaryCandidate # Undefined /\ primaryCandidate[1].text # <<>>
                  THEN primaryCandidate[1].text ELSE <<>>,
         candidates |-> candidates,
         boundingBox |-> unifiedBoundingBox,
         confidence |-> IF primaryCandidate # Undefined /\ primaryCandidate[1].confidence[1] # 0
                        THEN primaryCandidate[1].confidence ELSE Num(0),
         platformData |-> [ios |-> [normalizedBoundingBox |-> observation.boundingBox,
                                    observationType |-> "VNRecognizedTextObservation"]]]

\* mutant: the region texts joined by newlines instead of spaces
iosResultToUnified_JoinsByNewline(iosResult, originalOptions, elapsedMs) ==
    LET regions == [i \in 1..Len(iosResult.observations) |->
                       IosRegion(iosResult.observations[i], iosResult.imageSize)]
    IN  [regions |-> regions,
         fullText |-> Join([i \in 1..Len(regions) |-> regions[i].text], <<"\n">>),
         performance |-> [recognitionTimeMs |-> elapsedMs, regionsDetected |-> Len(regions)]]

iosResultToUnified(iosResult, originalOptions, elapsedMs) ==
    LET regions == [i \in 1..Len(iosResult.observations) |->
                       IosRegion(iosResult.observations[i], iosResult.imageSize)]
        fullText == Join([i \in 1..Len(regions) |-> regions[i].text], <<" ">>)
        request == iosResult.effectiveRequest
    IN  [regions |-> regions,
         fullText |-> fullText,
         imageSize |-> iosResult.imageSize,
         platform |-> "ios",
         effectiveOptions |->
             [recognitionLevel |-> Get(request, "recognitionLevel"),
              recognitionLanguages |-> Get(request, "recognitionLanguages"),
              regionOfInterest |->
                  IF TruthyObj(Get(request, "regionOfInterest"))
                  THEN Some(visionToUnifiedBoundingBox(request["regionOfInterest"][1],
                                                       iosResult.imageSize))
                  ELSE Undefined,
              minimumTextHeight |->
                  IF TruthyNum(Get(request, "minimumTextHeight"))
                  THEN Some(MathRound(Mul(request["minimumTextHeight"][1],
                                          iosResult.imageSize.height)))
                  ELSE Undefined,
              customWords |-> Get(request, "customWords"),
              maxCandidates |->
                  IF TruthyNum(Get(request, "maxCandidates"))
                  THEN request["maxCandidates"] ELSE Some(Num(5))],
         performance |-> [recognitionTimeMs |-> elapsedMs, regionsDetected |-> Len(regions)],
         platformResult |-> [ios |-> iosResult]]

\* the body of the innermost forEach: the regions one element contributes
\* mutant: an element without a bounding box yields a region with an empty box
AndroidElementRegions_NeverSkips(element, blockIndex, lineIndex, imageSize) ==
    LET zero == [x |-> Num(0), y |-> Num(0), width |-> Num(0), height |-> Num(0)]
        box == IF TruthyObj(element.boundingBox) THEN element.boundingBox[1] ELSE zero
    IN  <<[text |-> element.text,
           candidates |-> <<[text |-> element.text, confidence |-> Num(1)]>>,
           boundingBox |-> mlkitToUnifiedBoundingBox(box, imageSize),
           confidence |-> Num(1)]>>

AndroidElementRegions(element, blockIndex, lineIndex, imageSize) ==
    IF ~TruthyObj(element.boundingBox) THEN <<>>
    ELSE
      LET unifiedBoundingBox == mlkitToUnifiedBoundingBox(element.boundingBox[1], imageSize)
          cornerPoints == IF TruthyObj(element.cornerPoints)
                          THEN Some(mlkitToUnifiedPoints(element.cornerPoints[1], imageSize))
                          ELSE Undefined
          confidence == IF TruthyNum(element.confidence) THEN element.confidence[1] ELSE Num(1)
          candidates == <<[text |-> element.text, confidence |-> confidence]>>
      IN  <<[text |-> element.text,
             candidates |-> candidates,
             boundingBox |-> unifiedBoundingBox,
             cornerPoints |-> cornerPoints,
             confidence |-> confidence,
             recognizedLanguage |-> element.recognizedLanguage,
             rotationDegree |-> element.rotationDegree,
             platformData |->
                 [android |->
                     [hierarchyLevel |-> "element",
                      parentId |-> <<"block", blockIndex, "line", lineIndex>>,
                      childIds |-> IF TruthyObj(element.symbols)
                                   THEN [k \in 1..Len(element.symbols[1]) |-> <<"symbol", k - 1>>]
                                   ELSE <<>>]]]>>

\* line.elements.forEach, from the element at position `from` on
RECURSIVE AndroidLineRegions(_, _, _, _, _)
AndroidLineRegions(elements, from, blockIndex, lineIndex, imageSize) ==
    IF from > Len(elements) THEN <<>>
    ELSE AndroidElementRegions(elements[from], blockIndex, lineIndex, imageSize)
         \o AndroidLineRegions(elements, from + 1, blockIndex, lineIndex, imageSize)

\* block.lines.forEach, from the line at position `from` on
RECURSIVE AndroidBlockRegions(_, _, _, _)
AndroidBlockRegions(lines, from, blockIndex, imageSize) ==
    IF from > Len(lines) THEN <<>>
    ELSE AndroidLineRegions(lines[from].elements, 1, blockIndex, from - 1, imageSize)
         \o AndroidBlockRegions(lines, from + 1, blockIndex, imageSize)

\* androidResult.blocks.forEach, from the block at position `from` on
RECURSIVE AndroidRegions(_, _, _)
AndroidRegions(blocks, from, imageSize) ==
    IF from > Len(blocks) THEN <<>>
    ELSE AndroidBlockRegions(blocks[from].lines, 1, from - 1, imageSize)
         \o AndroidRegions(blocks, from + 1, imageSize)

\* the lines and elements of a sequence of lines
RECURSIVE LinesCost(_)
LinesCost(lines) ==
    IF lines = <<>> THEN 0 ELSE 1 + Len(lines[1].elements) + LinesCost(Tail(lines))

\* the elements of a raw Android result, with and without a bounding box
RECURSIVE AndroidElementCount(_)
AndroidElementCount(blocks) ==
    IF blocks = <<>> THEN 0
    ELSE LinesCost(blocks[1].lines) - Len(blocks[1].lines) + AndroidElementCount(Tail(blocks))

\* mutant: regionsDetected counts every element, the skipped ones included
androidResultToUnified_CountsSkipped(androidResult, originalOptions, elapsedMs) ==
    LET regions == AndroidRegions(androidResult.blocks, 1, androidResult.imageSize)
    IN  [regions |-> regions,
         fullText |-> androidResult.fullText,
         performance |-> [recognitionTimeMs |-> elapsedMs,
                          regionsDetected |-> AndroidElementCount(androidResult.blocks)]]

\* mutant: the caller's options are reported back as the effective options
androidResultToUnified_EchoesOptions(androidResult, originalOptions, elapsedMs) ==
    LET regions == AndroidRegions(androidResult.blocks, 1, androidResult.imageSize)
    IN  [regions |-> regions,
         fullText |-> androidResult.fullText,
         imageSize |-> androidResult.imageSize,
         platform |-> "android",
         effectiveOptions |-> originalOptions,
         performance |-> [recognitionTimeMs |-> elapsedMs, regionsDetected |-> Len(regions)],
         platformResult |-> [android |-> androidResult]]

androidResultToUnified(androidResult, originalOptions, elapsedMs) ==
    LET regions == AndroidRegions(androidResult.blocks, 1, androidResult.imageSize)
    IN  [regions |-> regions,
         fullText |-> androidResult.fullText,
         imageSize |-> androidResult.imageSize,
         platform |-> "android",
         effectiveOptions |->
             [recognitionLevel |-> Some("accurate"),
              recognitionLanguages |-> Some(<<>>),
              maxCandidates |-> Some(Num(1))],
         performance |-> [recognitionTimeMs |-> elapsedMs, regionsDetected |-> Len(regions)],
         platformResult |-> [android |-> androidResult]]

\* mutant: an empty list counts as unset, and language correction is left out
unifiedToIosOptions_DropsEmptyLists(unifiedOptions, imageSize) ==
    LET present ==
            {k \in {"recognitionLevel"} : TruthyStr(Get(unifiedOptions, k))}
            \cup {k \in {"recognitionLanguages", "customWords"} :
                     TruthyObj(Get(unifiedOptions, k)) /\ unifiedOptions[k][1] # <<>>}
            \cup {k \in {"regionOfInterest"} : TruthyObj(Get(unifiedOptions, k))}
            \cup {k \in {"minimumTextHeight", "maxCandidates"} :
                     TruthyNum(Get(unifiedOptions, k))}
    IN  [k \in present |->
            CASE k = "regionOfInterest" ->
                     Some(unifiedToVisionBoundingBox(unifiedOptions[k][1], imageSize))
              [] k = "minimumTextHeight" ->
                     Some(Div(unifiedOptions[k][1], imageSize.height))
              [] OTHER -> unifiedOptions[k]]

unifiedToIosOptions(unifiedOptions, imageSize) ==
    LET present ==
            {k \in {"recognitionLevel"} : TruthyStr(Get(unifiedOptions, k))}
            \cup {k \in {"recognitionLanguages", "regionOfInterest", "customWords"} :
                     TruthyObj(Get(unifiedOptions, k))}
            \cup {k \in {"minimumTextHeight", "maxCandidates"} :
                     TruthyNum(Get(unifiedOptions, k))}
            \cup {"usesLanguageCorrection"}
    IN  [k \in present |->
            CASE k = "regionOfInterest" ->
                     Some(unifiedToVisionBoundingBox(unifiedOptions[k][1], imageSize))
              [] k = "minimumTextHeight" ->
                     Some(Div(unifiedOptions[k][1], imageSize.height))
              [] k = "usesLanguageCorrection" -> Some(TRUE)
              [] OTHER -> unifiedOptions[k]]

getAndroidOptions == [k \in {"model"} |-> Some("latin")]

\* mutant: the iOS defaults on every platform
getDefaultUnifiedOptions_IosEverywhere ==
    [k \in {"recognitionLevel", "recognitionLanguages", "maxCandidates"} |->
        CASE k = "recognitionLevel" -> Some("accurate")
          [] k = "recognitionLanguages" -> Some(<<"en-US">>)
          [] k = "maxCandidates" -> Some(Num(5))]

getDefaultUnifiedOptions ==
    [k \in {"recognitionLevel", "recognitionLanguages", "maxCandidates"} |->
        CASE k = "recognitionLevel" -> Some("accurate")
          [] k = "recognitionLanguages" ->
                 IF platform = "ios" THEN Some(<<"en-US">>) ELSE Some(<<>>)
          [] k = "maxCandidates" ->
                 IF platform = "ios" THEN Some(Num(5)) ELSE Some(Num(1))]

(***************************************************************************)
(* String.prototype.replace with a string pattern: the first occurrence    *)
(* of the pattern, wherever it is, is replaced.                            *)
(***************************************************************************)
IndexOf(str, pattern) ==
    LET hits == {i \in 1..(Len(str) - Len(pattern) + 1) :
                    SubSeq(str, i, i + Len(pattern) - 1) = pattern}
    IN  IF hits = {} THEN 0 ELSE CHOOSE i \in hits : \A j \in hits : i <= j

StringReplace(str, pattern, replacement) ==
    LET i == IndexOf(str, pattern)
    IN  IF i = 0 THEN str
        ELSE SubSeq(str, 1, i - 1) \o replacement \o SubSeq(str, i + Len(pattern), Len(str))

FileScheme == <<"f", "i", "l", "e", ":", "/", "/">>

\* const processedUri = uri.replace('file://', '')
ProcessUri(uri) == StringReplace(uri, FileScheme, <<>>)

(***************************************************************************)
(* src/unnamed/part_003 (api/unified.ts) and src/src/index.ts              *)
(* An invocation record holds the position of one call of an async         *)
(* function (pc), its arguments and locals, the native calls it has issued *)
(* (calls), the settlements it has received (replies) and the settlement   *)
(* of the promise it returned (outcome).                                   *)
(***************************************************************************)
JsError(message) == [name |-> "Error", message |-> message]

IosUnavailableError ==
    JsError(<<"iOS", "text", "extraction", "is", "not", "available", "on", "this", "platform">>)

AndroidUnavailableError ==
    JsError(<<"Android", "text", "extraction", "is", "not", "available", "on", "this",
              "platform">>)

UnsupportedPlatformError ==
    JsError(<<"Text", "extraction", "is", "not", "supported", "on", "platform:", platform>>)

PlaceholderImageSize == [width |-> Num(1), height |-> Num(1)]

Pending == [status |-> "pending", value |-> <<>>, error |-> <<>>]

Resolved(value) == [status |-> "resolved", value |-> value, error |-> <<>>]

Rejected(error) == [status |-> "rejected", value |-> <<>>, error |-> error]

NativeCall(fn, uri, options) == [fn |-> fn, uri |-> uri, options |-> options]

Fulfilled(value) == [ok |-> TRUE, value |-> value, error |-> <<>>]

Failed(error) == [ok |-> FALSE, value |-> <<>>, error |-> error]

\* const effectiveOptions = { ...getDefaultUnifiedOptions(), ...options }
MergeOptions(options) ==
    Spread(getDefaultUnifiedOptions, IF options = Undefined THEN <<>> ELSE options[1])

\* mutant: the capability check is skipped and the native function is called
AdvancedOnIos_Unchecked(frame) ==
    [frame EXCEPT
        !.pc = "awaitIosFirst",
        !.calls = <<NativeCall("extractTextFromImageIOS", frame.processedUri,
                               unifiedToIosOptions(frame.effectiveOptions,
                                                   PlaceholderImageSize))>>]

\* the iOS branch up to its first await or throw
AdvancedOnIos(frame) ==
    IF "extractTextFromImageIOS" \notin nativeFns
    THEN [frame EXCEPT !.pc = "done", !.outcome = Rejected(IosUnavailableError)]
    ELSE [frame EXCEPT
             !.pc = "awaitIosFirst",
             !.calls = <<NativeCall("extractTextFromImageIOS", frame.processedUri,
                                    unifiedToIosOptions(frame.effectiveOptions,
                                                        PlaceholderImageSize))>>]

\* mutant: the caller's effective options are forwarded to the Android call
AdvancedOnAndroid_ForwardsOptions(frame) ==
    IF "extractTextFromImageAndroid" \notin nativeFns
    THEN [frame EXCEPT !.pc = "done", !.outcome = Rejected(AndroidUnavailableError)]
    ELSE [frame EXCEPT
             !.pc = "awaitAndroid",
             !.calls = <<NativeCall("extractTextFromImageAndroid", frame.processedUri,
                                    frame.effectiveOptions)>>]

\* the Android branch up to its await or throw
AdvancedOnAndroid(frame) ==
    IF "extractTextFromImageAndroid" \notin nativeFns
    THEN [frame EXCEPT !.pc = "done", !.outcome = Rejected(AndroidUnavailableError)]
    ELSE [frame EXCEPT
             !.pc = "awaitAndroid",
             !.calls = <<NativeCall("extractTextFromImageAndroid", frame.processedUri,
                                    getAndroidOptions)>>]

\* mutant: an unsupported platform falls back to the basic native function
AdvancedOnOtherPlatform_FallsBackToBasic(frame) ==
    [frame EXCEPT
        !.pc = "awaitBasic",
        !.calls = <<NativeCall("extractTextFromImage", frame.processedUri, Undefined)>>]

\* neither branch taken: throw new Error(`... not supported on platform: ${Platform.OS}`)
AdvancedOnOtherPlatform(frame) ==
    [frame EXCEPT !.pc = "done", !.outcome = Rejected(UnsupportedPlatformError)]

\* extractTextFromImageAdvanced from its entry to its first await or throw
AdvancedStart(uri, options) ==
    LET frame == [pc |-> "idle", api |-> "advanced", uri |-> uri, options |-> options,
                  processedUri |-> ProcessUri(uri),
                  effectiveOptions |-> MergeOptions(options),
                  calls |-> <<>>, replies |-> <<>>, outcome |-> Pending]
    IN  IF platform = "ios" THEN AdvancedOnIos(frame)
        ELSE IF platform = "android" THEN AdvancedOnAndroid(frame)
        ELSE AdvancedOnOtherPlatform(frame)

\* mutant: the second conversion reuses the 1x1 placeholder
FinalIosOptions_UsesPlaceholder(effectiveOptions, iosResult) ==
    unifiedToIosOptions(effectiveOptions, PlaceholderImageSize)

\* mutant: the image size is kept in a variable of the module, shared by all
\* invocations: the size of the first result any invocation has received
FinalIosOptions_SharedImageSize(effectiveOptions, iosResult) ==
    LET holders == {j \in DOMAIN inv : Len(inv[j].replies) >= 1 /\ inv[j].replies[1].ok}
        first == CHOOSE j \in holders : \A k \in holders : j <= k
    IN  unifiedToIosOptions(effectiveOptions,
                            IF holders = {} THEN iosResult.imageSize
                            ELSE inv[first].replies[1].value.imageSize)

\* const finalIosOptions = unifiedToIosOptions(effectiveOptions, iosResult.imageSize)
FinalIosOptions(effectiveOptions, iosResult) ==
    unifiedToIosOptions(effectiveOptions, iosResult.imageSize)

\* mutant: the first result is taken and the second call is never issued
AdvancedAfterIosFirst_NeverCallsAgain(frame, iosResult) ==
    [frame EXCEPT !.pc = "hung", !.replies = Append(@, Fulfilled(iosResult))]

\* the first native call resolved: convert again and call a second time
AdvancedAfterIosFirst(frame, iosResult) ==
    [frame EXCEPT
        !.pc = "awaitIosFinal",
        !.replies = Append(@, Fulfilled(iosResult)),
        !.calls = Append(@, NativeCall("extractTextFromImageIOS", frame.processedUri,
                                       FinalIosOptions(frame.effectiveOptions, iosResult)))]

\* the second native call resolved: return iosResultToUnified(finalResult, effectiveOptions)
AdvancedAfterIosFinal(frame, finalResult, elapsedMs) ==
    [frame EXCEPT
        !.pc = "done",
        !.replies = Append(@, Fulfilled(finalResult)),
        !.outcome = Resolved(iosResultToUnified(finalResult, frame.effectiveOptions, elapsedMs))]

\* the native call resolved: return androidResultToUnified(androidResult, effectiveOptions)
AdvancedAfterAndroid(frame, androidResult, elapsedMs) ==
    [frame EXCEPT
        !.pc = "done",
        !.replies = Append(@, Fulfilled(androidResult)),
        !.outcome = Resolved(androidResultToUnified(androidResult, frame.effectiveOptions,
                                                    elapsedMs))]

\* mutant: the native error is caught and rethrown as a new Error
AfterNativeFailure_Wraps(frame, error) ==
    [frame EXCEPT
        !.pc = "done",
        !.replies = Append(@, Failed(error)),
        !.outcome = Rejected(JsError(error.message))]

\* an awaited native call rejected: the await throws and nothing catches it
AfterNativeFailure(frame, error) ==
    [frame EXCEPT
        !.pc = "done",
        !.replies = Append(@, Failed(error)),
        !.outcome = Rejected(error)]

\* mutant: the wrapper returns the text of every candidate of every region
UnifiedAfterAdvanced_AllCandidates(frame) ==
    IF frame.outcome.status # "resolved" THEN frame
    ELSE LET regions == frame.outcome.value.regions
             RECURSIVE texts(_)
             texts(k) ==
                 IF k > Len(regions) THEN <<>>
                 ELSE [c \in 1..Len(regions[k].candidates) |-> regions[k].candidates[c].text]
                      \o texts(k + 1)
         IN  [frame EXCEPT !.outcome = Resolved(texts(1))]

\* extractTextFromImageUnified once the extractTextFromImageAdvanced it awaits has
\* settled: return result.regions.map((region) => region.text), or rethrow
UnifiedAfterAdvanced(frame) ==
    IF frame.outcome.status # "resolved" THEN frame
    ELSE LET regions == frame.outcome.value.regions
         IN  [frame EXCEPT
                 !.outcome = Resolved([k \in 1..Len(regions) |-> regions[k].text])]

\* extractTextFromImageUnified from its entry to the first await or throw of the
\* extractTextFromImageAdvanced it calls
UnifiedStart(uri, options) ==
    LET frame == [AdvancedStart(uri, options) EXCEPT !.api = "unified"]
    IN  IF frame.pc = "done" THEN UnifiedAfterAdvanced(frame) ELSE frame

\* the frame as its caller sees it settle
Settled(frame) == IF frame.api = "unified" THEN UnifiedAfterAdvanced(frame) ELSE frame

\* getPlatformCapabilities (synchronous): the tables it returns
IosFeatures ==
    [recognitionLevels |-> <<"fast", "accurate">>,
     languageSupport |-> TRUE,
     customVocabulary |-> TRUE,
     regionOfInterest |-> TRUE,
     minimumTextHeight |-> TRUE,
     multipleCandidates |-> TRUE,
     languageCorrection |-> TRUE,
     automaticLanguageDetection |-> TRUE,
     coordinateSystem |->
         "normalized-bottom-left (converted to pixel+percentage-top-left)",
     maxCandidatesSupport |-> TRUE,
     confidenceScores |-> TRUE]

IosLimitations ==
    [customVocabularyRequiresIOS16 |-> TRUE,
     automaticLanguageDetectionRequiresIOS16 |-> TRUE,
     noCornerPoints |-> TRUE,
     noHierarchicalStructure |-> TRUE]

AndroidFeatures ==
    [recognitionLevels |-> <<"accurate">>,
     languageSupport |-> FALSE,
     customVocabulary |-> FALSE,
     regionOfInterest |-> FALSE,
     minimumTextHeight |-> FALSE,
     multipleCandidates |-> FALSE,
     languageCorrection |-> FALSE,
     automaticLanguageDetection |-> TRUE,
     coordinateSystem |-> "pixel-top-left (with percentage conversion)",
     maxCandidatesSupport |-> FALSE,
     confidenceScores |-> TRUE,
     hierarchicalTextStructure |-> TRUE,
     rotationDetection |-> TRUE,
     symbolLevelDetection |-> TRUE,
     cornerPoints |-> TRUE]

AndroidLimitations ==
    [onlyLatinScript |-> TRUE,
     noCustomVocabulary |-> TRUE,
     noRegionOfInterest |-> TRUE,
     singleCandidatePerElement |-> TRUE,
     noRecognitionLevelControl |-> TRUE,
     noLanguageControl |-> TRUE]

\* mutant: an unsupported platform is described with the Android table
getPlatformCapabilities_AndroidElsewhere(os, isSupported) ==
    [platform |-> os, isSupported |-> isSupported, basicExtraction |-> isSupported,
     features |-> IF os = "ios" THEN IosFeatures ELSE AndroidFeatures,
     limitations |-> IF os = "ios" THEN IosLimitations ELSE AndroidLimitations]

\* os is Platform.OS, isSupported is ExpoTextExtractorModule.isSupported
getPlatformCapabilities(os, isSupported) ==
    LET common == [platform |-> os, isSupported |-> isSupported,
                   basicExtraction |-> isSupported]
    IN  IF os = "ios"
        THEN Spread(common, [features |-> IosFeatures, limitations |-> IosLimitations])
        ELSE IF os = "android"
        THEN Spread(common, [features |-> AndroidFeatures,
                             limitations |-> AndroidLimitations])
        ELSE Spread(common, [features |-> <<>>,
                             limitations |-> [platformNotSupported |-> TRUE]])

\* extractTextFromImage (index.ts) up to the native call whose promise it returns
BasicStart(uri) ==
    LET processedUri == ProcessUri(uri)
    IN  [pc |-> "awaitBasic", api |-> "basic", uri |-> uri, options |-> Undefined,
         processedUri |-> processedUri, effectiveOptions |-> <<>>,
         calls |-> <<NativeCall("extractTextFromImage", processedUri, Undefined)>>,
         replies |-> <<>>, outcome |-> Pending]

\* the promise extractTextFromImage returned settles as the native call does
BasicAfterNative(frame, texts) ==
    [frame EXCEPT
        !.pc = "done",
        !.replies = Append(@, Fulfilled(texts)),
        !.outcome = Resolved(texts)]

(***************************************************************************)
(* State.                                                                  *)
(*   platform   Platform.OS                                                *)
(*   nativeFns  the functions the native module object carries             *)
(*   inv        the invocations of the asynchronous api                    *)
(*   call, ret  one call of a synchronous helper and its return value      *)
(***************************************************************************)
Invocations == {1, 2}

NoCall == [fn |-> "none"]

IdleInvocation ==
    [pc |-> "idle", api |-> "none", uri |-> <<>>, options |-> Undefined,
     processedUri |-> <<>>, effectiveOptions |-> <<>>,
     calls |-> <<>>, replies |-> <<>>,
     outcome |-> [status |-> "pending", value |-> <<>>, error |-> <<>>]]

\* no asynchronous invocation is in flight; used while the helpers are exercised
ApiAtRest ==
    /\ platform = "ios"
    /\ nativeFns = {}
    /\ inv = [i \in Invocations |-> IdleInvocation]

(***************************************************************************)
(* Inputs of the coordinate helpers.                                       *)
(***************************************************************************)
Dims == {Num(k) : k \in 1..MaxDim}

ImageSizes == [width : Dims, height : Dims]

\* the grid k/GridDen, and half the gap between 1 and the number below it
Fractions ==
    {Fl(Rat(k, GridDen)) : k \in 0..GridDen} \cup {Rat(1, Pow2(MantissaBits + 1))}

PixelVals == {Fl(Rat(k, PixelDen)) : k \in 0..(PixelDen * MaxDim)}

Optional(S) == {Undefined} \cup {Some(v) : v \in S}

\* normalized boxes that lie inside the unit square
VisionBoxes ==
    {b \in [x : Fractions, y : Fractions, width : Fractions, height : Fractions] :
        /\ b.x[1] * b.width[2] + b.width[1] * b.x[2] <= b.x[2] * b.width[2]
        /\ b.y[1] * b.height[2] + b.height[1] * b.y[2] <= b.y[2] * b.height[2]}

RectBoxes == [x : PixelVals, y : PixelVals, width : PixelVals, height : PixelVals]

PixelCoords ==
    [x : PixelVals, y : PixelVals, width : Optional(PixelVals), height : Optional(PixelVals)]

PercentCoords ==
    [xPercent : Fractions, yPercent : Fractions,
     widthPercent : Optional(Fractions), heightPercent : Optional(Fractions)]

\* percent coordinates of a box inside the image, or of a point
OverlayPercents ==
    {[xPercent |-> b.x, yPercent |-> b.y,
      widthPercent |-> Some(b.width), heightPercent |-> Some(b.height)] : b \in VisionBoxes}
    \cup [xPercent : Fractions, yPercent : Fractions,
          widthPercent : {Undefined}, heightPercent : {Undefined}]

\* two different sizes of the image the coordinates were measured on
ImageSizePairs ==
    LET sizes == {[width |-> Num(1), height |-> Num(1)],
                  [width |-> Num(1), height |-> Num(MaxDim)],
                  [width |-> Num(MaxDim), height |-> Num(MaxDim)]}
    IN  {pair \in sizes \X sizes : pair[1] # pair[2]}

\* projectToOverlay is called twice onto one overlay, with the same percent
\* coordinates measured on two images of different size
OverlayCalls ==
    {[fn |-> "projectToOverlay",
      arg |-> percentToPixels(percents, pair[1]), imageSize |-> pair[1],
      twin |-> percentToPixels(percents, pair[2]), twinImageSize |-> pair[2],
      overlaySize |-> overlaySize] :
         percents \in OverlayPercents, pair \in ImageSizePairs, overlaySize \in ImageSizes}

CoordCalls ==
    [fn : {"visionToUnifiedBoundingBox"}, arg : VisionBoxes, imageSize : ImageSizes]
    \cup [fn : {"mlkitToUnifiedBoundingBox"}, arg : RectBoxes, imageSize : ImageSizes]
    \cup [fn : {"pixelsToPercent"}, arg : PixelCoords, imageSize : ImageSizes]
    \cup [fn : {"percentToPixels"}, arg : PercentCoords, imageSize : ImageSizes]
    \cup {[fn |-> "unifiedToVisionBoundingBox",
           arg |-> visionToUnifiedBoundingBox(visionBox, imageSize),
           imageSize |-> imageSize, visionBox |-> visionBox] :
              visionBox \in VisionBoxes, imageSize \in ImageSizes}
    \cup OverlayCalls

(***************************************************************************)
(* Raw native results: the inputs of the result adapters.                  *)
(***************************************************************************)
Words == {<<"a">>, <<"b", "c">>}

\* the differences the adapters' two clock readings can show, in milliseconds
ElapsedMs == {0, 1}

RawImageSizes == {[width |-> Num(2), height |-> Num(4)], [width |-> Num(3), height |-> Num(1)]}

AndroidImageSize == [width |-> Num(2), height |-> Num(4)]

\* ---- iOS (types/ios.ts RecognizeTextIOSResult) ----
Candidates ==
    {[text |-> <<"a">>, confidence |-> Num(1)],
     [text |-> <<"b", "c">>, confidence |-> Rat(1, 2)],
     [text |-> <<"a">>, confidence |-> Num(0)],
     [text |-> <<>>, confidence |-> Rat(1, 2)]}

ObservationBoxes ==
    {[x |-> Rat(1, 4), y |-> Rat(1, 4), width |-> Rat(1, 2), height |-> Rat(1, 4)],
     [x |-> Num(0), y |-> Rat(1, 2), width |-> Rat(1, 4), height |-> Rat(1, 2)]}

\* the observations with at most n - 1 candidates
ObservationsOfCost(n) ==
    UNION {[boundingBox : ObservationBoxes, candidates : [1..k -> Candidates]] : k \in 0..(n - 1)}

\* the sequences of observations with at most n observations and candidates in all
RECURSIVE ObservationSeqs(_)
ObservationSeqs(n) ==
    {<<>>} \cup
    UNION {{<<o>> \o rest : rest \in ObservationSeqs(n - 1 - Len(o.candidates))} :
              o \in ObservationsOfCost(n)}

\* what the native side echoes of the request it ran
DefaultEcho ==
    [k \in {"recognitionLevel", "recognitionLanguages", "usesLanguageCorrection",
             "revision", "regionOfInterest"} |->
         CASE k = "recognitionLevel" -> Some("accurate")
           [] k = "recognitionLanguages" -> Some(<<"en-US">>)
           [] k = "usesLanguageCorrection" -> Some(TRUE)
           [] k = "revision" -> Some(Num(3))
           [] k = "regionOfInterest" ->
                  Some([x |-> Num(0), y |-> Num(0), width |-> Num(1), height |-> Num(1)])]

FullEcho ==
    [k \in {"recognitionLevel", "recognitionLanguages", "usesLanguageCorrection",
             "revision", "regionOfInterest", "minimumTextHeight", "customWords",
             "automaticallyDetectsLanguage", "maxCandidates"} |->
         CASE k = "recognitionLevel" -> Some("fast")
           [] k = "recognitionLanguages" -> Some(<<"en-US", "cs">>)
           [] k = "usesLanguageCorrection" -> Some(TRUE)
           [] k = "revision" -> Some(Num(3))
           [] k = "regionOfInterest" ->
                  Some([x |-> Rat(1, 4), y |-> Num(0), width |-> Rat(1, 2), height |-> Rat(1, 2)])
           [] k = "minimumTextHeight" -> Some(Rat(1, 4))
           [] k = "customWords" -> Some(<<"MyBrand">>)
           [] k = "automaticallyDetectsLanguage" -> Some(FALSE)
           [] k = "maxCandidates" -> Some(Num(3))]

EffectiveRequests == {DefaultEcho, FullEcho}

IosResults(n) ==
    [observations : ObservationSeqs(n), imageSize : RawImageSizes,
     effectiveRequest : EffectiveRequests]

\* ---- Android (types/android.ts RecognizeTextAndroidResult) ----
ElementBox == [x |-> Num(1), y |-> Num(0), width |-> Num(1), height |-> Num(1)]

ElementCorners ==
    <<[x |-> Num(1), y |-> Num(0)], [x |-> Num(2), y |-> Num(0)],
      [x |-> Num(2), y |-> Num(1)], [x |-> Num(1), y |-> Num(1)]>>

\* an element as the native module builds it: the corner points come with the
\* bounding box; confidence, rotation and symbols come together or not at all
Element(text, hasBox, confidence) ==
    [text |-> text,
     boundingBox |-> IF hasBox THEN Some(ElementBox) ELSE Undefined,
     cornerPoints |-> IF hasBox THEN Some(ElementCorners) ELSE Undefined,
     recognizedLanguage |-> IF Len(text) = 1 THEN Some("en") ELSE Undefined,
     confidence |-> confidence,
     rotationDegree |-> IF confidence = Undefined THEN Undefined ELSE Some(Num(0)),
     symbols |-> IF confidence = Undefined THEN Undefined
                 ELSE Some([i \in 1..Len(text) |-> [text |-> <<text[i]>>]])]

Elements ==
    {Element(t, hasBox, Undefined) : t \in Words, hasBox \in BOOLEAN}
    \cup {Element(<<"a">>, TRUE, Some(Rat(1, 2))), Element(<<"b", "c">>, TRUE, Some(Num(0)))}

\* the text ML Kit reports for a line, a block and the whole image
LineText(elements) == Join([i \in 1..Len(elements) |-> elements[i].text], <<" ">>)

BlockText(lines) == Join([i \in 1..Len(lines) |-> lines[i].text], <<"\n">>)

ImageText(blocks) == Join([i \in 1..Len(blocks) |-> blocks[i].text], <<"\n">>)

\* the lines with at most n - 1 elements
LinesOfCost(n) ==
    {[text |-> LineText(es), elements |-> es] :
        es \in UNION {[1..k -> Elements] : k \in 0..(n - 1)}}

\* the sequences of lines with at most n lines and elements in all
RECURSIVE LineSeqs(_)
LineSeqs(n) ==
    {<<>>} \cup
    UNION {{<<l>> \o rest : rest \in LineSeqs(n - 1 - Len(l.elements))} : l \in LinesOfCost(n)}

\* the blocks with at most n - 1 lines and elements in all
BlocksOfCost(n) ==
    IF n < 1 THEN {} ELSE {[text |-> BlockText(ls), lines |-> ls] : ls \in LineSeqs(n - 1)}

\* the sequences of blocks with at most n blocks, lines and elements in all
RECURSIVE BlockSeqs(_)
BlockSeqs(n) ==
    {<<>>} \cup
    UNION {{<<b>> \o rest : rest \in BlockSeqs(n - 1 - LinesCost(b.lines))} : b \in BlocksOfCost(n)}

AndroidResults(n) ==
    {[blocks |-> bs, fullText |-> ImageText(bs), imageSize |-> AndroidImageSize,
      effectiveRequest |-> [model |-> "latin"]] : bs \in BlockSeqs(n)}

\* a page of 2 blocks of 2 lines of 3 elements, every element with a bounding
\* box and a text of its own
GridBlocks ==
    LET digit == <<"1", "2", "3">>
        elementsOf(b, l) ==
            [e \in 1..3 |-> Element(<<digit[b], digit[l], digit[e]>>, TRUE, Undefined)]
        linesOf(b) ==
            [l \in 1..2 |-> [text |-> LineText(elementsOf(b, l)), elements |-> elementsOf(b, l)]]
    IN  [b \in 1..2 |-> [text |-> BlockText(linesOf(b)), lines |-> linesOf(b)]]

GridResult ==
    [blocks |-> GridBlocks, fullText |-> ImageText(GridBlocks),
     imageSize |-> AndroidImageSize, effectiveRequest |-> [model |-> "latin"]]

AdapterCalls ==
    [fn : {"iosResultToUnified"}, arg : IosResults(MaxIosNodes)]
    \cup [fn : {"androidResultToUnified"},
          arg : AndroidResults(MaxAndroidNodes) \cup {GridResult}]

(***************************************************************************)
(* The result adapters as steps: each call returns once.                   *)
(***************************************************************************)
CallIosResultToUnified ==
    \E elapsedMs \in ElapsedMs :
        /\ call.fn = "iosResultToUnified"
        /\ ret = Undefined
        /\ ret' = Some(iosResultToUnified(call.arg, Undefined, elapsedMs))
        /\ UNCHANGED <<platform, nativeFns, inv, call>>

CallAndroidResultToUnified ==
    \E elapsedMs \in ElapsedMs :
        /\ call.fn = "androidResultToUnified"
        /\ ret = Undefined
        /\ ret' = Some(androidResultToUnified(call.arg, Undefined, elapsedMs))
        /\ UNCHANGED <<platform, nativeFns, inv, call>>

InitAdapters ==
    /\ ApiAtRest
    /\ call \in AdapterCalls
    /\ ret = Undefined

NextAdapters ==
    \/ CallIosResultToUnified
    \/ CallAndroidResultToUnified

SpecAdapters == InitAdapters /\ [][NextAdapters]_vars

(***************************************************************************)
(* The asynchronous api: platforms, arguments and native settlements.      *)
(***************************************************************************)
Platforms == {"ios", "android", "web", "windows", "macos"}

\* the native module always carries extractTextFromImage; the platform's own
\* function is missing from a binary built before it was added
ModulesOf(os) ==
    IF os = "ios" THEN {{"extractTextFromImage"},
                        {"extractTextFromImage", "extractTextFromImageIOS"}}
    ELSE IF os = "android" THEN {{"extractTextFromImage"},
                                 {"extractTextFromImage", "extractTextFromImageAndroid"}}
    ELSE {{"extractTextFromImage"}}

\* "file:///a", "/a", "c://a", "c://a/file://b", "file://file:///a", "file:/a", ""
Uris ==
    {FileScheme \o <<"/", "a">>,
     <<"/", "a">>,
     <<"c", ":", "/", "/", "a">>,
     <<"c", ":", "/", "/", "a", "/">> \o FileScheme \o <<"b">>,
     FileScheme \o FileScheme \o <<"/", "a">>,
     <<"f", "i", "l", "e", ":", "/", "a">>,
     <<>>}

OptionKeys ==
    {"recognitionLevel", "recognitionLanguages", "regionOfInterest",
     "minimumTextHeight", "customWords", "maxCandidates"}

OptionValues(key) ==
    CASE key = "recognitionLevel" -> {"fast"}
      [] key = "recognitionLanguages" -> {<<"cs">>, <<>>}
      [] key = "regionOfInterest" ->
             {[x |-> Num(1), y |-> Num(1), width |-> Num(1), height |-> Num(2),
               xPercent |-> Rat(1, 2), yPercent |-> Rat(1, 4),
               widthPercent |-> Rat(1, 2), heightPercent |-> Rat(1, 2)]}
      [] key = "minimumTextHeight" -> {Num(2), Num(0)}
      [] key = "customWords" -> {<<"MyBrand">>}
      [] key = "maxCandidates" -> {Num(3), Num(0)}

\* the objects whose keys are exactly `keys`, a key holding a value or undefined
RECURSIVE ObjectsOver(_)
ObjectsOver(keys) ==
    IF keys = {} THEN {<<>>}
    ELSE LET key == CHOOSE k \in keys : TRUE
         IN  {[k \in DOMAIN obj \cup {key} |-> IF k = key THEN v ELSE obj[k]] :
                 obj \in ObjectsOver(keys \ {key}), v \in Optional(OptionValues(key))}

\* the options argument: omitted, or an object setting at most MaxOptionKeys keys
OptionArgs ==
    {Undefined} \cup
    {Some(obj) : obj \in UNION {ObjectsOver(keys) :
                                   keys \in {K \in SUBSET OptionKeys :
                                                Cardinality(K) <= MaxOptionKeys}}}

\* extractTextFromImageUnified takes only recognitionLevel and recognitionLanguages
UnifiedOptionArgs ==
    {Undefined} \cup
    {Some(obj) : obj \in UNION {ObjectsOver(keys) :
                                   keys \in SUBSET {"recognitionLevel",
                                                    "recognitionLanguages"}}}

SampleObservation ==
    [boundingBox |-> [x |-> Rat(1, 4), y |-> Rat(1, 4), width |-> Rat(1, 2),
                      height |-> Rat(1, 4)],
     candidates |-> <<[text |-> <<"a">>, confidence |-> Num(1)],
                      [text |-> <<"b", "c">>, confidence |-> Rat(1, 2)]>>]

ApiIosResults ==
    [observations : {<<>>, <<SampleObservation>>}, imageSize : RawImageSizes,
     effectiveRequest : {DefaultEcho}]

\* the raw Android results of at most three blocks, lines and elements
ApiAndroidResults == AndroidResults(3)

BasicTexts == {<<>>, <<<<"a">>, <<"b", "c">>>>}

NativeErrors ==
    {[name |-> "err", message |-> <<"recognition", "failed">>],
     [name |-> "UNKNOWN_ERROR", message |-> <<"Unknown", "error">>]}

(***************************************************************************)
(* The asynchronous api as steps.  A step runs an invocation from one      *)
(* await to the next: the native settlement and the continuation it wakes. *)
(***************************************************************************)
Advance(i, frame) ==
    /\ inv' = [inv EXCEPT ![i] = frame]
    /\ UNCHANGED <<platform, nativeFns, call, ret>>

InvokeAdvanced(i, uris, optionArgs) ==
    /\ inv[i].pc = "idle"
    /\ \E uri \in uris, options \in optionArgs :
           Advance(i, AdvancedStart(uri, options))

InvokeUnified(i, uris, optionArgs) ==
    /\ inv[i].pc = "idle"
    /\ \E uri \in uris, options \in optionArgs :
           Advance(i, UnifiedStart(uri, options))

InvokeBasic(i, uris) ==
    /\ inv[i].pc = "idle"
    /\ \E uri \in uris :
           Advance(i, BasicStart(uri))

IosFirstResolves(i) ==
    /\ inv[i].pc = "awaitIosFirst"
    /\ \E iosResult \in ApiIosResults :
           Advance(i, AdvancedAfterIosFirst(inv[i], iosResult))

IosFinalResolves(i) ==
    /\ inv[i].pc = "awaitIosFinal"
    /\ \E finalResult \in ApiIosResults, elapsedMs \in ElapsedMs :
           Advance(i, Settled(AdvancedAfterIosFinal(inv[i], finalResult, elapsedMs)))

AndroidResolves(i) ==
    /\ inv[i].pc = "awaitAndroid"
    /\ \E androidResult \in ApiAndroidResults, elapsedMs \in ElapsedMs :
           Advance(i, Settled(AdvancedAfterAndroid(inv[i], androidResult, elapsedMs)))

\* the web module's extractTextFromImage resolves [] and never rejects
BasicResolves(i) ==
    /\ inv[i].pc = "awaitBasic"
    /\ \E texts \in (IF platform = "web" THEN {<<>>} ELSE BasicTexts) :
           Advance(i, BasicAfterNative(inv[i], texts))

NativeRejects(i) ==
    /\ \/ inv[i].pc \in {"awaitIosFirst", "awaitIosFinal", "awaitAndroid"}
       \/ inv[i].pc = "awaitBasic" /\ platform # "web"
    /\ \E error \in NativeErrors :
           Advance(i, Settled(AfterNativeFailure(inv[i], error)))

\* the awaited native call of invocation i settles
NativeSettles(i) ==
    \/ IosFirstResolves(i)
    \/ IosFinalResolves(i)
    \/ AndroidResolves(i)
    \/ BasicResolves(i)
    \/ NativeRejects(i)

\* ExpoTextExtractorModule.isSupported: true in the iOS and Android modules,
\* false in the web module, whatever the loaded module says elsewhere
IsSupportedValues(os) ==
    IF os \in {"ios", "android"} THEN {TRUE}
    ELSE IF os = "web" THEN {FALSE}
    ELSE BOOLEAN

\* a call of getPlatformCapabilities: it reads Platform.OS and the module's
\* constant and returns at once
GetPlatformCapabilities ==
    \E isSupported \in IsSupportedValues(platform) :
        /\ call' = [fn |-> "getPlatformCapabilities", isSupported |-> isSupported]
        /\ ret' = Some(getPlatformCapabilities(platform, isSupported))
        /\ UNCHANGED <<platform, nativeFns, inv>>

Init ==
    /\ platform \in Platforms
    /\ nativeFns \in ModulesOf(platform)
    /\ inv = [i \in Invocations |-> IdleInvocation]
    /\ call = NoCall
    /\ ret = Undefined

\* one invocation at a time
Next ==
    \/ InvokeAdvanced(1, Uris, OptionArgs)
    \/ InvokeUnified(1, Uris, UnifiedOptionArgs)
    \/ InvokeBasic(1, Uris)
    \/ IosFirstResolves(1)
    \/ IosFinalResolves(1)
    \/ AndroidResolves(1)
    \/ BasicResolves(1)
    \/ NativeRejects(1)

Spec == Init /\ [][Next]_vars

(***************************************************************************)
(* Two invocations of extractTextFromImageAdvanced in flight together, on  *)
(* a platform that has its native function; their steps interleave freely.*)
(***************************************************************************)
ConcurrentUris == {FileScheme \o <<"/", "a">>, <<"c", ":", "/", "/", "a">>}

ConcurrentOptionArgs ==
    {Undefined, Some([k \in {"minimumTextHeight"} |-> Some(Num(2))])}

InitConcurrent ==
    /\ platform \in {"ios", "android"}
    /\ nativeFns = {"extractTextFromImage",
                    IF platform = "ios" THEN "extractTextFromImageIOS"
                    ELSE "extractTextFromImageAndroid"}
    /\ inv = [i \in Invocations |-> IdleInvocation]
    /\ call = NoCall
    /\ ret = Undefined

NextConcurrent ==
    \E i \in Invocations :
        \/ InvokeAdvanced(i, ConcurrentUris, ConcurrentOptionArgs)
        \/ IosFirstResolves(i)
        \/ IosFinalResolves(i)
        \/ AndroidResolves(i)
        \/ NativeRejects(i)

SpecConcurrent == InitConcurrent /\ [][NextConcurrent]_vars

(***************************************************************************)
(* One invocation whose native calls all settle: the native layer settles  *)
(* every promise it handed out, so a settlement that stays possible is     *)
(* eventually taken.                                                       *)
(***************************************************************************)
NextLive ==
    \/ InvokeAdvanced(1, ConcurrentUris, ConcurrentOptionArgs)
    \/ InvokeUnified(1, ConcurrentUris, UnifiedOptionArgs)
    \/ InvokeBasic(1, ConcurrentUris)
    \/ NativeSettles(1)
    \/ GetPlatformCapabilities

\* an invocation suspended at an await on a native promise
IsPending(i) ==
    inv[i].pc \in {"awaitIosFirst", "awaitIosFinal", "awaitAndroid", "awaitBasic"}

\* Every native promise eventually settles: weak fairness of NativeSettles(1).
\* NativeSettles(1) is enabled exactly while invocation 1 is suspended at an
\* await (the native result sets are not empty and a settlement always moves
\* pc), so WF_vars(NativeSettles(1)) is written on that enabling condition:
\* the invocation is infinitely often not suspended, or it settles infinitely
\* often.
SpecLive ==
    /\ Init
    /\ [][NextLive]_vars
    /\ ([]<>(~IsPending(1)) \/ []<><<NativeSettles(1)>>_vars)

Returns(fn, value) ==
    /\ call.fn = fn
    /\ ret = Undefined
    /\ ret' = Some(value)
    /\ UNCHANGED <<platform, nativeFns, inv, call>>

(***************************************************************************)
(* The option adapters as steps: each call returns once.                   *)
(***************************************************************************)
OptionCalls ==
    [fn : {"getDefaultUnifiedOptions", "getAndroidOptions"}]
    \cup [fn : {"unifiedToIosOptions"},
          arg : {options[1] : options \in OptionArgs \ {Undefined}},
          imageSize : RawImageSizes]

\* the conversions of a minimum text height of m pixels for an image H high
TextHeightCalls ==
    {[fn |-> "unifiedToIosOptions",
      arg |-> [k \in {"minimumTextHeight"} |-> Some(Num(m))],
      imageSize |-> [width |-> Num(1), height |-> Num(H)]] :
        m \in 1..MaxTextHeight, H \in 1..MaxImageHeight}

CallGetDefaultUnifiedOptions ==
    Returns("getDefaultUnifiedOptions", getDefaultUnifiedOptions)

CallGetAndroidOptions ==
    Returns("getAndroidOptions", getAndroidOptions)

CallUnifiedToIosOptions ==
    Returns("unifiedToIosOptions", unifiedToIosOptions(call.arg, call.imageSize))

\* the native side runs the request that unifiedToIosOptions built on an image
\* of the size the options were converted for, and echoes the request it ran:
\* the minimumTextHeight it was given, or none (the field is optional in the
\* echo); the result then goes to iosResultToUnified
NativeEchoes ==
    /\ call.fn = "unifiedToIosOptions"
    /\ ret # Undefined
    /\ \E echoed \in SUBSET ({"minimumTextHeight"} \cap DOMAIN ret[1]) :
           call' = [fn |-> "iosResultToUnified",
                    arg |-> [observations |-> <<>>,
                             imageSize |-> call.imageSize,
                             effectiveRequest |->
                                 Spread(DefaultEcho, [k \in echoed |-> ret[1][k]])],
                    request |-> call.arg]
    /\ ret' = Undefined
    /\ UNCHANGED <<platform, nativeFns, inv>>

InitOptions ==
    /\ platform \in Platforms
    /\ nativeFns \in ModulesOf(platform)
    /\ inv = [i \in Invocations |-> IdleInvocation]
    /\ call \in OptionCalls \cup TextHeightCalls
    /\ ret = Undefined

NextOptions ==
    \/ CallGetDefaultUnifiedOptions
    \/ CallGetAndroidOptions
    \/ CallUnifiedToIosOptions
    \/ NativeEchoes
    \/ CallIosResultToUnified

SpecOptions == InitOptions /\ [][NextOptions]_vars

(***************************************************************************)
(* The coordinate helpers as steps: each call returns once.                *)
(***************************************************************************)
CallVisionToUnifiedBoundingBox ==
    Returns("visionToUnifiedBoundingBox", visionToUnifiedBoundingBox(call.arg, call.imageSize))

CallMlkitToUnifiedBoundingBox ==
    Returns("mlkitToUnifiedBoundingBox", mlkitToUnifiedBoundingBox(call.arg, call.imageSize))

CallPixelsToPercent ==
    Returns("pixelsToPercent", pixelsToPercent(call.arg, call.imageSize))

CallPercentToPixels ==
    Returns("percentToPixels", percentToPixels(call.arg, call.imageSize))

\* the way back, on a box that visionToUnifiedBoundingBox produced
CallUnifiedToVisionBoundingBox ==
    Returns("unifiedToVisionBoundingBox", unifiedToVisionBoundingBox(call.arg, call.imageSize))

CallProjectToOverlay ==
    Returns("projectToOverlay",
            [result |-> projectToOverlay(call.arg, call.imageSize, call.overlaySize),
             twinResult |-> projectToOverlay(call.twin, call.twinImageSize,
                                             call.overlaySize)])

InitCoords ==
    /\ ApiAtRest
    /\ call \in CoordCalls
    /\ ret = Undefined

NextCoords ==
    \/ CallVisionToUnifiedBoundingBox
    \/ CallMlkitToUnifiedBoundingBox
    \/ CallPixelsToPercent
    \/ CallPercentToPixels
    \/ CallUnifiedToVisionBoundingBox
    \/ CallProjectToOverlay

SpecCoords == InitCoords /\ [][NextCoords]_vars

(***************************************************************************)
(* The helpers and the result adapters on an image of which the width, the *)
(* height or both are 0: each call returns once.                           *)
(***************************************************************************)
ZeroSizes ==
    {[width |-> Num(0), height |-> Num(0)],
     [width |-> Num(0), height |-> Num(MaxDim)],
     [width |-> Num(MaxDim), height |-> Num(0)]}

ZeroSizeCalls ==
    [fn : {"visionToUnifiedBoundingBox"}, arg : ObservationBoxes, imageSize : ZeroSizes]
    \cup [fn : {"mlkitToUnifiedBoundingBox"},
          arg : {box \in RectBoxes : \A k \in DOMAIN box : IsInteger(box[k])},
          imageSize : ZeroSizes]
    \cup [fn : {"mlkitToUnifiedPoints"}, arg : {ElementCorners, <<>>}, imageSize : ZeroSizes]
    \cup {[fn |-> "iosResultToUnified", arg |-> [result EXCEPT !.imageSize = size]] :
              result \in IosResults(2), size \in ZeroSizes}
    \cup {[fn |-> "androidResultToUnified", arg |-> [result EXCEPT !.imageSize = size]] :
              result \in AndroidResults(3), size \in ZeroSizes}

CallMlkitToUnifiedPoints ==
    Returns("mlkitToUnifiedPoints", mlkitToUnifiedPoints(call.arg, call.imageSize))

InitZeroSize ==
    /\ ApiAtRest
    /\ call \in ZeroSizeCalls
    /\ ret = Undefined

NextZeroSize ==
    \/ CallVisionToUnifiedBoundingBox
    \/ CallMlkitToUnifiedBoundingBox
    \/ CallMlkitToUnifiedPoints
    \/ CallIosResultToUnified
    \/ CallAndroidResultToUnified

SpecZeroSize == InitZeroSize /\ [][NextZeroSize]_vars

(***************************************************************************)
(* C10.  Percent invariant: every UnifiedBoundingBox returned by           *)
(* visionToUnifiedBoundingBox, mlkitToUnifiedBoundingBox, pixelsToPercent  *)
(* or percentToPixels for an image of positive size has pixel fields equal *)
(* to the rounded projection of its percent fields:                        *)
(* round(xPercent * W) = x, round(yPercent * H) = y,                       *)
(* round(widthPercent * W) = width, round(heightPercent * H) = height.     *)
(***************************************************************************)
IsBoundingBox(coords) == "widthPercent" \in DOMAIN coords

PercentConsistent(box, imageSize) ==
    /\ MathRound(Mul(box.xPercent, imageSize.width)) = box.x
    /\ MathRound(Mul(box.yPercent, imageSize.height)) = box.y
    /\ MathRound(Mul(box.widthPercent, imageSize.width)) = box.width
    /\ MathRound(Mul(box.heightPercent, imageSize.height)) = box.height

C10_PercentInvariant ==
    (ret # Undefined /\ IsBoundingBox(ret[1])) => PercentConsistent(ret[1], call.imageSize)

(***************************************************************************)
(* C8.  For every result of iosResultToUnified or androidResultToUnified,  *)
(* fullText equals the texts of the regions, in region order, joined by    *)
(* single spaces.  (The statement as claimed; it fails on Android.)        *)
(***************************************************************************)
RegionTexts(result) == [i \in 1..Len(result.regions) |-> result.regions[i].text]

AdapterReturned(fn) == call.fn = fn /\ ret # Undefined

C8_FullTextIsJoinedRegionTexts ==
    (AdapterReturned("iosResultToUnified") \/ AdapterReturned("androidResultToUnified"))
        => ret[1].fullText = Join(RegionTexts(ret[1]), <<" ">>)

(***************************************************************************)
(* C8, amended.  For every result of iosResultToUnified, fullText equals   *)
(* the texts of the regions, in region order, joined by single spaces; for *)
(* every result of androidResultToUnified, fullText is the raw result's    *)
(* fullText, copied unchanged.                                             *)
(***************************************************************************)
C8_FullTextPerPlatform ==
    /\ AdapterReturned("iosResultToUnified")
           => ret[1].fullText = Join(RegionTexts(ret[1]), <<" ">>)
    /\ AdapterReturned("androidResultToUnified")
           => ret[1].fullText = call.arg.fullText

\* an Android result whose two regions come from two lines has been adapted:
\* its fullText carries the native newline, not a space
C8_Witness ==
    /\ AdapterReturned("androidResultToUnified")
    /\ Len(ret[1].regions) = 2
    /\ ret[1].regions[1].text = <<"b", "c">>
    /\ ret[1].regions[2].text = <<"a">>
    /\ ret[1].fullText = <<"b", "c", "\n", "a">>

(***************************************************************************)
(* C9.  For every result produced by either adapter on any raw input       *)
(* (zero observations, empty blocks and elements skipped for lacking a     *)
(* bounding box included), performance.regionsDetected = regions.length.   *)
(***************************************************************************)
C9_RegionsDetectedIsLength ==
    (AdapterReturned("iosResultToUnified") \/ AdapterReturned("androidResultToUnified"))
        => ret[1].performance.regionsDetected = Len(ret[1].regions)

\* an Android result in which an element was skipped and another was not
C9_Witness ==
    /\ AdapterReturned("androidResultToUnified")
    /\ Len(ret[1].regions) >= 1
    /\ AndroidElementCount(call.arg.blocks) > Len(ret[1].regions)
    /\ \E i \in 1..Len(call.arg.blocks) : call.arg.blocks[i].lines = <<>>


(***************************************************************************)
(* Claims about extractTextFromImageAdvanced and extractTextFromImage.     *)
(***************************************************************************)
IsAdvanced(i) == inv[i].api = "advanced"

HasWord(message, word) == \E k \in 1..Len(message) : message[k] = word

CallerSet(options, key) ==
    /\ options # Undefined
    /\ key \in DOMAIN options[1]
    /\ options[1][key] # Undefined

HasFilePrefix(uri) == Len(uri) >= Len(FileScheme) /\ SubSeq(uri, 1, Len(FileScheme)) = FileScheme

(***************************************************************************)
(* C1.  On every platform other than 'ios' and 'android', for every uri    *)
(* and options, extractTextFromImageAdvanced has failed with the           *)
(* unsupported-platform error whose message ends with the platform's name, *)
(* and no native function has been called.                                 *)
(***************************************************************************)
C1_UnsupportedPlatformFails ==
    \A i \in Invocations :
        IsAdvanced(i) /\ platform \notin {"ios", "android"} =>
            /\ inv[i].pc = "done"
            /\ inv[i].outcome.status = "rejected"
            /\ inv[i].outcome.error =
                   [name |-> "Error",
                    message |-> <<"Text", "extraction", "is", "not", "supported", "on",
                                  "platform:", platform>>]
            /\ inv[i].calls = <<>>

C1_Witness ==
    /\ platform = "web"
    /\ IsAdvanced(1)
    /\ inv[1].options # Undefined
    /\ inv[1].outcome.status = "rejected"

C3_NativeFailurePropagates ==
    \A i \in Invocations :
        IsAdvanced(i) =>
            LET f == inv[i]
            IN  /\ \A k \in 1..Len(f.replies) :
                       ~f.replies[k].ok =>
                           /\ k = Len(f.replies)
                           /\ Len(f.calls) = k
                           /\ f.pc = "done"
                           /\ f.outcome.status = "rejected"
                           /\ f.outcome.error = f.replies[k].error
                /\ platform = "ios" => Len(f.calls) <= 2
                /\ platform = "android" => Len(f.calls) <= 1

C3_Witness ==
    /\ platform = "ios"
    /\ IsAdvanced(1)
    /\ Len(inv[1].replies) = 1
    /\ ~inv[1].replies[1].ok
    /\ inv[1].outcome.status = "rejected"
    /\ inv[1].outcome.error.name = "UNKNOWN_ERROR"

(***************************************************************************)
(* C4.  On iOS without extractTextFromImageIOS (on Android without         *)
(* extractTextFromImageAndroid), extractTextFromImageAdvanced has failed   *)
(* with an error whose message names the missing native function, and no   *)
(* native call has been made.                                              *)
(***************************************************************************)
C4_MissingFunctionNamed ==
    \A i \in Invocations :
        /\ IsAdvanced(i) /\ platform = "ios" /\ "extractTextFromImageIOS" \notin nativeFns =>
               /\ inv[i].outcome.status = "rejected"
               /\ HasWord(inv[i].outcome.error.message, "extractTextFromImageIOS")
               /\ inv[i].calls = <<>>
        /\ IsAdvanced(i) /\ platform = "android"
                /\ "extractTextFromImageAndroid" \notin nativeFns =>
               /\ inv[i].outcome.status = "rejected"
               /\ HasWord(inv[i].outcome.error.message, "extractTextFromImageAndroid")
               /\ inv[i].calls = <<>>

(***************************************************************************)
(* C4, amended.  On iOS without extractTextFromImageIOS (on Android        *)
(* without extractTextFromImageAndroid), extractTextFromImageAdvanced has  *)
(* failed with the error 'iOS text extraction is not available on this     *)
(* platform' ('Android text extraction is not available on this            *)
(* platform'), and no native call has been made.                           *)
(***************************************************************************)
C4_MissingCapabilityFails ==
    \A i \in Invocations :
        /\ IsAdvanced(i) /\ platform = "ios" /\ "extractTextFromImageIOS" \notin nativeFns =>
               /\ inv[i].pc = "done"
               /\ inv[i].outcome.status = "rejected"
               /\ inv[i].outcome.error =
                      [name |-> "Error",
                       message |-> <<"iOS", "text", "extraction", "is", "not", "available",
                                     "on", "this", "platform">>]
               /\ inv[i].calls = <<>>
        /\ IsAdvanced(i) /\ platform = "android"
                /\ "extractTextFromImageAndroid" \notin nativeFns =>
               /\ inv[i].pc = "done"
               /\ inv[i].outcome.status = "rejected"
               /\ inv[i].outcome.error =
                      [name |-> "Error",
                       message |-> <<"Android", "text", "extraction", "is", "not",
                                     "available", "on", "this", "platform">>]
               /\ inv[i].calls = <<>>

C4_Witness ==
    /\ platform = "ios"
    /\ "extractTextFromImageIOS" \notin nativeFns
    /\ IsAdvanced(1)
    /\ inv[1].outcome.status = "rejected"
    /\ inv[1].calls = <<>>

(***************************************************************************)
(* C5.  On Android with extractTextFromImageAndroid present, an invocation *)
(* makes exactly one native call, of extractTextFromImageAndroid with      *)
(* options {model: 'latin'} whatever the caller's options, and a resolved  *)
(* invocation returns the adaptation of that call's result.                *)
(***************************************************************************)
C5_AndroidSingleLatinCall ==
    \A i \in Invocations :
        IsAdvanced(i) /\ platform = "android"
            /\ "extractTextFromImageAndroid" \in nativeFns =>
            LET f == inv[i]
            IN  /\ Len(f.calls) = 1
                /\ f.calls[1].fn = "extractTextFromImageAndroid"
                /\ f.calls[1].options = [k \in {"model"} |-> <<"latin">>]
                /\ f.outcome.status = "resolved" =>
                       \E elapsedMs \in ElapsedMs :
                           f.outcome.value =
                               androidResultToUnified(f.replies[1].value,
                                                      f.effectiveOptions, elapsedMs)

C5_Witness ==
    /\ platform = "android"
    /\ IsAdvanced(1)
    /\ CallerSet(inv[1].options, "recognitionLevel")
    /\ inv[1].outcome.status = "resolved"
    /\ Len(inv[1].calls) = 1
    /\ Len(inv[1].outcome.value.regions) = 1

(***************************************************************************)
(* C6.  For every option field, the effective value is the caller's value  *)
(* when the caller set the field, and the value of getDefaultUnifiedOptions*)
(* when the caller left it unset: the key absent, or holding undefined.    *)
(***************************************************************************)
C6_DefaultsOverriddenByCaller ==
    \A i \in Invocations :
        IsAdvanced(i) =>
            \A key \in OptionKeys :
                Get(inv[i].effectiveOptions, key) =
                    IF CallerSet(inv[i].options, key) THEN inv[i].options[1][key]
                    ELSE Get(getDefaultUnifiedOptions, key)

(***************************************************************************)
(* C7.  The uri of every native call is the caller's uri without its       *)
(* leading 'file://' when the uri begins with 'file://', and the caller's  *)
(* uri unchanged when it does not.                                         *)
(***************************************************************************)
C7_OnlyLeadingSchemeStripped ==
    \A i \in Invocations :
        \A k \in 1..Len(inv[i].calls) :
            inv[i].calls[k].uri =
                IF HasFilePrefix(inv[i].uri)
                THEN SubSeq(inv[i].uri, Len(FileScheme) + 1, Len(inv[i].uri))
                ELSE inv[i].uri


(***************************************************************************)
(* Claims about the coordinate helpers.                                    *)
(***************************************************************************)
HelperReturned(fn) == call.fn = fn /\ ret # Undefined

\* |a - b| <= 2^(1 - MantissaBits), the gap between 1 and the next number
WithinEpsilon(a, b) ==
    Abs(a[1] * b[2] - b[1] * a[2]) * HalfRadix <= a[2] * b[2]

(***************************************************************************)
(* C11.  Round trip: for every normalized box b with 0 < width, height and *)
(* lying in the unit square, and every positive imageSize,                 *)
(* unifiedToVisionBoundingBox(visionToUnifiedBoundingBox(b, imageSize),    *)
(* imageSize) equals b in all four fields.                                 *)
(***************************************************************************)
C11_RoundTripExact ==
    HelperReturned("unifiedToVisionBoundingBox")
        /\ call.visionBox.width[1] > 0 /\ call.visionBox.height[1] > 0
        => ret[1] = call.visionBox

(***************************************************************************)
(* C11, amended.  The round trip reproduces x, width and height of b       *)
(* exactly, whatever the pixel rounding of the forward direction, and      *)
(* reproduces y up to the rounding of the four subtractions it went        *)
(* through: within the gap between 1 and the next number.                  *)
(***************************************************************************)
C11_RoundTripWithinRounding ==
    HelperReturned("unifiedToVisionBoundingBox")
        /\ call.visionBox.width[1] > 0 /\ call.visionBox.height[1] > 0
        => /\ ret[1].x = call.visionBox.x
           /\ ret[1].width = call.visionBox.width
           /\ ret[1].height = call.visionBox.height
           /\ WithinEpsilon(ret[1].y, call.visionBox.y)

\* a round trip whose forward direction rounded the pixel fields
C11_Witness ==
    /\ HelperReturned("unifiedToVisionBoundingBox")
    /\ call.visionBox.width[1] > 0 /\ call.visionBox.height[1] > 0
    /\ ~IsInteger(Mul(call.visionBox.x, call.imageSize.width))
    /\ ~IsInteger(Mul(call.visionBox.height, call.imageSize.height))
    /\ ret[1].x = call.visionBox.x
    /\ ret[1].y = call.visionBox.y


(***************************************************************************)
(* C12.  visionToUnifiedBoundingBox flips the vertical origin: for every   *)
(* normalized box and image size W x H, xPercent = box.x,                  *)
(* widthPercent = box.width, heightPercent = box.height,                   *)
(* yPercent = 1 - box.y - box.height, x = round(box.x * W),                *)
(* width = round(box.width * W), height = round(box.height * H) and        *)
(* y = round(H - box.y * H - box.height * H).                              *)
(***************************************************************************)
C12_VerticalFlip ==
    HelperReturned("visionToUnifiedBoundingBox") =>
        LET box == call.arg
            W == call.imageSize.width
            H == call.imageSize.height
        IN  /\ ret[1].xPercent = box.x
            /\ ret[1].widthPercent = box.width
            /\ ret[1].heightPercent = box.height
            /\ ret[1].yPercent = Sub(Sub(Num(1), box.y), box.height)
            /\ ret[1].x = MathRound(Mul(box.x, W))
            /\ ret[1].width = MathRound(Mul(box.width, W))
            /\ ret[1].height = MathRound(Mul(box.height, H))
            /\ ret[1].y = MathRound(Sub(Sub(H, Mul(box.y, H)), Mul(box.height, H)))

\* a box a quarter above the bottom edge and a quarter high, on an image two
\* pixels high, ends with its top edge half way down, at pixel row 1
C12_Witness ==
    /\ HelperReturned("visionToUnifiedBoundingBox")
    /\ call.arg.y = <<1, 4>>
    /\ call.arg.height = <<1, 4>>
    /\ call.imageSize.height = <<2, 1>>
    /\ ret[1].yPercent = <<1, 2>>
    /\ ret[1].y = <<1, 1>>

(***************************************************************************)
(* C13.  mlkitToUnifiedBoundingBox is a pass-through with no vertical      *)
(* flip: for every ML Kit box (a rectangle of integer pixel fields, as the *)
(* native layer builds it from android.graphics.Rect) and positive image   *)
(* size, the output pixel fields x, y, width, height are unchanged from    *)
(* the input, and each percent field is the input pixel field divided by   *)
(* the image width (x, width) or height (y, height).                       *)
(***************************************************************************)
IsMlkitBox(box) ==
    IsInteger(box.x) /\ IsInteger(box.y) /\ IsInteger(box.width) /\ IsInteger(box.height)

C13_MlkitPassThrough ==
    HelperReturned("mlkitToUnifiedBoundingBox") /\ IsMlkitBox(call.arg) =>
        /\ ret[1].x = call.arg.x
        /\ ret[1].y = call.arg.y
        /\ ret[1].width = call.arg.width
        /\ ret[1].height = call.arg.height
        /\ ret[1].xPercent = Div(call.arg.x, call.imageSize.width)
        /\ ret[1].yPercent = Div(call.arg.y, call.imageSize.height)
        /\ ret[1].widthPercent = Div(call.arg.width, call.imageSize.width)
        /\ ret[1].heightPercent = Div(call.arg.height, call.imageSize.height)

\* an integer box off the top edge stays where it is
C13_Witness ==
    /\ HelperReturned("mlkitToUnifiedBoundingBox")
    /\ call.arg = [x |-> <<0, 1>>, y |-> <<1, 1>>, width |-> <<1, 1>>, height |-> <<0, 1>>]
    /\ call.imageSize = [width |-> <<2, 1>>, height |-> <<2, 1>>]
    /\ ret[1].y = <<1, 1>>
    /\ ret[1].yPercent = <<1, 2>>
    /\ ret[1].widthPercent = <<1, 2>>


(***************************************************************************)
(* Claims about the result and option adapters.                            *)
(***************************************************************************)
RECURSIVE ElementsOfLines(_)
ElementsOfLines(lines) ==
    IF lines = <<>> THEN <<>> ELSE lines[1].elements \o ElementsOfLines(Tail(lines))

\* the elements of a raw Android result, block by block, line by line
RECURSIVE ElementsOfBlocks(_)
ElementsOfBlocks(blocks) ==
    IF blocks = <<>> THEN <<>>
    ELSE ElementsOfLines(blocks[1].lines) \o ElementsOfBlocks(Tail(blocks))

HasBoundingBox(element) == element.boundingBox # Undefined

(***************************************************************************)
(* C14.  Flattening completeness: for every Android raw result the regions *)
(* of androidResultToUnified are, in block-then-line-then-element order,   *)
(* the elements that have a bounding box, one region each and none for an  *)
(* element without one, and every region has exactly one candidate, whose  *)
(* text is the element's text; 2 blocks x 2 lines x 3 elements, all with   *)
(* bounding boxes, yield exactly 12 regions.                               *)
(***************************************************************************)
C14_FlatteningComplete ==
    AdapterReturned("androidResultToUnified") =>
        LET boxed == SelectSeq(ElementsOfBlocks(call.arg.blocks), HasBoundingBox)
            regions == ret[1].regions
        IN  /\ Len(regions) = Len(boxed)
            /\ \A i \in 1..Len(regions) :
                   /\ regions[i].text = boxed[i].text
                   /\ Len(regions[i].candidates) = 1
                   /\ regions[i].candidates[1].text = boxed[i].text
            /\ call.arg.blocks = GridBlocks => Len(regions) = 12

\* the page of 2 x 2 x 3 elements has been flattened into 12 regions; the
\* fourth is the first element of the second line of the first block
C14_Witness ==
    /\ AdapterReturned("androidResultToUnified")
    /\ call.arg.blocks = GridBlocks
    /\ Len(ret[1].regions) = 12
    /\ ret[1].regions[4].text = <<"1", "2", "1">>
    /\ ret[1].regions[12].text = <<"2", "2", "3">>


(***************************************************************************)
(* C15.  getDefaultUnifiedOptions returns recognitionLevel 'accurate' on   *)
(* every platform, with maxCandidates = 5 and recognitionLanguages =       *)
(* ['en-US'] on iOS, and maxCandidates = 1 and recognitionLanguages = []   *)
(* on Android and every other platform; it sets no other field.            *)
(***************************************************************************)
C15_DefaultOptions ==
    HelperReturned("getDefaultUnifiedOptions") =>
        /\ DOMAIN ret[1] = {"recognitionLevel", "recognitionLanguages", "maxCandidates"}
        /\ ret[1].recognitionLevel = <<"accurate">>
        /\ platform = "ios" =>
               /\ ret[1].maxCandidates = <<<<5, 1>>>>
               /\ ret[1].recognitionLanguages = <<<<"en-US">>>>
        /\ platform # "ios" =>
               /\ ret[1].maxCandidates = <<<<1, 1>>>>
               /\ ret[1].recognitionLanguages = <<<<>>>>

\* the defaults have been taken on a platform that is neither iOS nor Android
C15_Witness ==
    /\ HelperReturned("getDefaultUnifiedOptions")
    /\ platform = "web"
    /\ ret[1].maxCandidates = <<<<1, 1>>>>


(***************************************************************************)
(* Claims about projectToOverlay.                                          *)
(***************************************************************************)
PercentFields(coords) == [k \in DOMAIN coords \cap {"xPercent", "yPercent", "widthPercent",
                                                      "heightPercent"} |-> coords[k]]

PixelFields(coords) == [k \in DOMAIN coords \cap {"x", "y", "width", "height"} |-> coords[k]]

(***************************************************************************)
(* C16.  Overlay projection scale-independence: two boxes (or points) with *)
(* identical percent fields, whatever their pixel fields and whatever the  *)
(* two originalImageSize arguments, project identically onto the same      *)
(* overlaySize, and the output pixel fields are                            *)
(* round(xPercent * overlaySize.width), round(yPercent * overlaySize.height),*)
(* round(widthPercent * overlaySize.width) and                             *)
(* round(heightPercent * overlaySize.height).                              *)
(***************************************************************************)
C16_OverlayScaleIndependent ==
    HelperReturned("projectToOverlay")
        /\ PercentFields(call.arg) = PercentFields(call.twin) =>
        LET out == ret[1].result
            W == call.overlaySize.width
            H == call.overlaySize.height
        IN  /\ out = ret[1].twinResult
            /\ out.x = MathRound(Mul(call.arg.xPercent, W))
            /\ out.y = MathRound(Mul(call.arg.yPercent, H))
            /\ IsBoundingBox(call.arg) =>
                   /\ out.width = MathRound(Mul(call.arg.widthPercent, W))
                   /\ out.height = MathRound(Mul(call.arg.heightPercent, H))

\* two boxes of equal percent fields and different pixel fields, measured on
\* images of different size, have been projected onto one overlay
C16_Witness ==
    /\ HelperReturned("projectToOverlay")
    /\ IsBoundingBox(call.arg)
    /\ PercentFields(call.arg) = PercentFields(call.twin)
    /\ call.arg.x # call.twin.x
    /\ call.arg.height # call.twin.height
    /\ call.imageSize # call.twinImageSize
    /\ call.overlaySize # call.imageSize
    /\ call.overlaySize # call.twinImageSize
    /\ PixelFields(ret[1].result) # PixelFields(call.arg)
    /\ PixelFields(ret[1].result) # PixelFields(call.twin)

(***************************************************************************)
(* C17.  projectToOverlay preserves the input discriminant and the percent *)
(* fields: a UnifiedBoundingBox yields an output with x, y, width, height  *)
(* and the four percent fields, a UnifiedPoint yields an output with only  *)
(* x, y, xPercent, yPercent, and every percent field of the output equals  *)
(* the same field of the input.                                            *)
(***************************************************************************)
C17_OverlayKeepsShape ==
    HelperReturned("projectToOverlay") =>
        LET out == ret[1].result
        IN  /\ IsBoundingBox(call.arg) =>
                   DOMAIN out = {"x", "y", "width", "height", "xPercent", "yPercent",
                                 "widthPercent", "heightPercent"}
            /\ ~IsBoundingBox(call.arg) => DOMAIN out = {"x", "y", "xPercent", "yPercent"}
            /\ PercentFields(out) = PercentFields(call.arg)

\* a box whose pixel fields all changed under projection kept its percent fields
C17_Witness ==
    /\ HelperReturned("projectToOverlay")
    /\ IsBoundingBox(call.arg)
    /\ IsBoundingBox(ret[1].result)
    /\ ret[1].result.width # call.arg.width
    /\ ret[1].result.y # call.arg.y
    /\ ret[1].result.heightPercent = call.arg.heightPercent
    /\ call.arg.heightPercent[1] > 0


(***************************************************************************)
(* Claims about extractTextFromImageUnified, concurrency and termination.  *)
(***************************************************************************)
\* extractTextFromImageAdvanced run alone from `frame` on the native replies
RECURSIVE AdvancedAlone(_, _, _)
AdvancedAlone(frame, replies, elapsedMs) ==
    IF replies = <<>> \/ frame.pc = "done" THEN frame
    ELSE LET reply == Head(replies)
             next ==
                 IF ~reply.ok THEN AfterNativeFailure(frame, reply.error)
                 ELSE IF frame.pc = "awaitIosFirst"
                      THEN AdvancedAfterIosFirst(frame, reply.value)
                 ELSE IF frame.pc = "awaitIosFinal"
                      THEN AdvancedAfterIosFinal(frame, reply.value, elapsedMs)
                 ELSE AdvancedAfterAndroid(frame, reply.value, elapsedMs)
         IN  AdvancedAlone(next, Tail(replies), elapsedMs)

(***************************************************************************)
(* C18.  extractTextFromImageUnified(uri, options) settles when the        *)
(* extractTextFromImageAdvanced(uri, options) run on the same native       *)
(* responses settles: it returns exactly the sequence regions[i].text of   *)
(* that result, same length and order, and it fails exactly when that call *)
(* fails, with the same error.                                             *)
(***************************************************************************)
C18_UnifiedIsTextsOfAdvanced ==
    \A i \in Invocations :
        inv[i].api = "unified" =>
            \E elapsedMs \in ElapsedMs :
                LET advanced == AdvancedAlone(AdvancedStart(inv[i].uri, inv[i].options),
                                              inv[i].replies, elapsedMs)
                    regions == advanced.outcome.value.regions
                IN  /\ inv[i].pc = advanced.pc
                    /\ inv[i].calls = advanced.calls
                    /\ inv[i].outcome.status = advanced.outcome.status
                    /\ advanced.outcome.status = "rejected" =>
                           inv[i].outcome.error = advanced.outcome.error
                    /\ advanced.outcome.status = "resolved" =>
                           /\ Len(inv[i].outcome.value) = Len(regions)
                           /\ \A k \in 1..Len(regions) :
                                  inv[i].outcome.value[k] = regions[k].text

\* the wrapper has returned the one text of a region that has two candidates
C18_Witness ==
    /\ inv[1].api = "unified"
    /\ platform = "ios"
    /\ inv[1].outcome.status = "resolved"
    /\ inv[1].outcome.value = << <<"a">> >>
    /\ Len(inv[1].replies[2].value.observations[1].candidates) = 2


(***************************************************************************)
(* C19.  Concurrent invocations of extractTextFromImageAdvanced are        *)
(* independent: under every interleaving of two in-flight invocations and  *)
(* their native responses, each invocation is where it would be had it run *)
(* alone on its own native responses, and on iOS its second native call is *)
(* built from the imageSize its own first call returned.                   *)
(***************************************************************************)
C19_ConcurrentInvocationsIndependent ==
    \A i \in Invocations :
        IsAdvanced(i) =>
            /\ \E elapsedMs \in ElapsedMs :
                   inv[i] = AdvancedAlone(AdvancedStart(inv[i].uri, inv[i].options),
                                          inv[i].replies, elapsedMs)
            /\ Len(inv[i].calls) >= 2 =>
                   inv[i].calls[2].options =
                       unifiedToIosOptions(MergeOptions(inv[i].options),
                                           inv[i].replies[1].value.imageSize)

\* two invocations are both waiting for their second native call, after first
\* results of different image heights, and their second calls differ
C19_Witness ==
    /\ inv[1].pc = "awaitIosFinal"
    /\ inv[2].pc = "awaitIosFinal"
    /\ inv[1].options = inv[2].options
    /\ CallerSet(inv[1].options, "minimumTextHeight")
    /\ inv[1].replies[1].value.imageSize.height # inv[2].replies[1].value.imageSize.height
    /\ inv[1].calls[2].options # inv[2].calls[2].options

(***************************************************************************)
(* C20.  extractTextFromImageAdvanced has no timeout or cancellation: when *)
(* every native call it issues eventually settles, a pending invocation    *)
(* eventually settles; and a pending invocation changes only by the        *)
(* settlement of the native call it awaits, so while that call does not    *)
(* settle the invocation stays pending and issues no further native call.  *)
(***************************************************************************)
C20_SettlesOnlyWithNative ==
    /\ \A i \in Invocations :
           (inv[i].pc # "idle") ~> (inv[i].pc = "done" /\ inv[i].outcome.status # "pending")
    /\ [][\A i \in Invocations :
              IsPending(i) /\ inv'[i] # inv[i] =>
                  /\ Len(inv'[i].replies) = Len(inv[i].replies) + 1
                  /\ Len(inv[i].calls) = Len(inv[i].replies) + 1
                  /\ Len(inv'[i].calls) <= Len(inv[i].calls) + 1]_vars

\* an invocation has settled after both of its native calls settled
C20_Witness ==
    /\ IsAdvanced(1)
    /\ inv[1].pc = "done"
    /\ Len(inv[1].replies) = 2
    /\ inv[1].outcome.status = "resolved"


(***************************************************************************)
(* C21.  getPlatformCapabilities never fails and never invokes a native    *)
(* function: every call returns a descriptor whose platform field is the   *)
(* current platform, carrying the fixed iOS or Android tables on those     *)
(* platforms and, elsewhere, empty features and the limitations            *)
(* {platformNotSupported: true}; it leaves every invocation as it was, and *)
(* a call that follows a call with the same isSupported returns the same   *)
(* descriptor.                                                             *)
(***************************************************************************)
CapabilitiesReturned == call.fn = "getPlatformCapabilities"

C21_CapabilitiesStaticTable ==
    /\ [](CapabilitiesReturned =>
             /\ ret # Undefined
             /\ DOMAIN ret[1] = {"platform", "isSupported", "basicExtraction",
                                 "features", "limitations"}
             /\ ret[1].platform = platform
             /\ ret[1].isSupported = call.isSupported
             /\ ret[1].basicExtraction = call.isSupported
             /\ platform = "ios" =>
                    ret[1].features = IosFeatures /\ ret[1].limitations = IosLimitations
             /\ platform = "android" =>
                    /\ ret[1].features = AndroidFeatures
                    /\ ret[1].limitations = AndroidLimitations
             /\ platform \notin {"ios", "android"} =>
                    /\ DOMAIN ret[1].features = {}
                    /\ ret[1].limitations = [platformNotSupported |-> TRUE])
    /\ [][call' # call \/ ret' # ret =>
              /\ inv' = inv
              /\ (CapabilitiesReturned /\ call'.isSupported = call.isSupported) =>
                     ret' = ret]_vars

\* the descriptor of an unsupported platform was returned while a native call
\* of an invocation was outstanding
C21_Witness ==
    /\ CapabilitiesReturned
    /\ platform = "web"
    /\ ret[1].limitations = [platformNotSupported |-> TRUE]
    /\ inv[1].pc = "awaitBasic"

(***************************************************************************)
(* C22.  On Android the caller's options never cause an error and never    *)
(* show in the result: whatever options the caller passed, an invocation   *)
(* of extractTextFromImageAdvanced is rejected only because the native     *)
(* function is missing or because the native call rejected, and a resolved *)
(* result has effectiveOptions {recognitionLevel: 'accurate',              *)
(* recognitionLanguages: [], maxCandidates: 1} and no other field.         *)
(***************************************************************************)
C22_AndroidIgnoresOptions ==
    \A i \in Invocations :
        IsAdvanced(i) /\ platform = "android" =>
            LET f == inv[i]
            IN  /\ f.outcome.status = "rejected" =>
                       \/ /\ "extractTextFromImageAndroid" \notin nativeFns
                          /\ f.outcome.error = AndroidUnavailableError
                       \/ /\ Len(f.replies) = 1
                          /\ ~f.replies[1].ok
                          /\ f.outcome.error = f.replies[1].error
                /\ "extractTextFromImageAndroid" \in nativeFns =>
                       Len(f.calls) = 1 /\ f.calls[1].options = getAndroidOptions
                /\ f.outcome.status = "resolved" =>
                       LET effective == f.outcome.value.effectiveOptions
                       IN  /\ DOMAIN effective = {"recognitionLevel", "recognitionLanguages",
                                                  "maxCandidates"}
                           /\ effective.recognitionLevel = Some("accurate")
                           /\ effective.recognitionLanguages = Some(<<>>)
                           /\ effective.maxCandidates = Some(Num(1))

\* an Android invocation resolved although the caller asked for a region of
\* interest and three candidates
C22_Witness ==
    /\ platform = "android"
    /\ IsAdvanced(1)
    /\ CallerSet(inv[1].options, "regionOfInterest")
    /\ CallerSet(inv[1].options, "maxCandidates")
    /\ inv[1].options[1]["maxCandidates"] = Some(Num(3))
    /\ inv[1].outcome.status = "resolved"

(***************************************************************************)
(* C23.  In every region of every result of the adapters the candidates    *)
(* are in descending order of confidence, and the region's text and        *)
(* confidence are those of a candidate of the highest confidence.  The     *)
(* Android adapter builds one candidate per region; the iOS adapter keeps  *)
(* the order of the native candidates, which the native side hands over    *)
(* best first (types/ios.ts, RecognizedTextCandidate).                     *)
(***************************************************************************)
Leq(a, b) == a[1] * b[2] <= b[1] * a[2]

Descending(candidates) ==
    \A k \in 1..(Len(candidates) - 1) :
        Leq(candidates[k + 1].confidence, candidates[k].confidence)

BestFirst(iosResult) ==
    \A i \in 1..Len(iosResult.observations) :
        Descending(iosResult.observations[i].candidates)

IsOfHighestCandidate(region) ==
    region.candidates # <<>> =>
        \E k \in 1..Len(region.candidates) :
            /\ region.text = region.candidates[k].text
            /\ region.confidence = region.candidates[k].confidence
            /\ \A j \in 1..Len(region.candidates) :
                   Leq(region.candidates[j].confidence, region.candidates[k].confidence)

C24_SecondCallOnlyOnChange ==
    \A i \in Invocations :
        (IsAdvanced(i) /\ platform = "ios" /\ Len(inv[i].replies) >= 1
            /\ inv[i].replies[1].ok) =>
            LET f == inv[i]
                placeholderOptions == unifiedToIosOptions(f.effectiveOptions,
                                                          PlaceholderImageSize)
                finalIosOptions == unifiedToIosOptions(f.effectiveOptions,
                                                       f.replies[1].value.imageSize)
            IN  /\ Len(f.calls) >= 2 => finalIosOptions # placeholderOptions
                /\ finalIosOptions = placeholderOptions =>
                       /\ Len(f.calls) = 1
                       /\ f.outcome.status = "resolved"
                       /\ \E elapsedMs \in ElapsedMs :
                              f.outcome.value =
                                  iosResultToUnified(f.replies[1].value,
                                                     f.effectiveOptions, elapsedMs)

(***************************************************************************)
(* C25.  unifiedToIosOptions copies recognitionLevel, recognitionLanguages,*)
(* customWords and maxCandidates verbatim: the output field equals the     *)
(* input field whenever the input field holds a value, whatever the value  *)
(* (an empty list, the number 0), and is absent from the output exactly    *)
(* when the input holds none; usesLanguageCorrection is true in every      *)
(* output.  (The statement as claimed; it fails for maxCandidates 0.)      *)
(***************************************************************************)
CopiedFields == {"recognitionLevel", "recognitionLanguages", "customWords", "maxCandidates"}

C25_CopiesWheneverPresent ==
    HelperReturned("unifiedToIosOptions") =>
        /\ \A k \in CopiedFields :
               IF Get(call.arg, k) # Undefined
               THEN k \in DOMAIN ret[1] /\ ret[1][k] = call.arg[k]
               ELSE k \notin DOMAIN ret[1]
        /\ Get(ret[1], "usesLanguageCorrection") = Some(TRUE)

(***************************************************************************)
(* C25, amended.  unifiedToIosOptions copies each of the four fields       *)
(* verbatim when the input value is truthy (any list, the empty one        *)
(* included; a non-empty string; a number other than 0) and leaves the     *)
(* field out of the output when the input key is absent or holds           *)
(* undefined, 0 or the empty string; usesLanguageCorrection is true in     *)
(* every output.                                                           *)
(***************************************************************************)
TruthyField(k, o) ==
    /\ o # Undefined
    /\ k = "recognitionLevel" => o[1] # ""
    /\ k = "maxCandidates" => o[1] # Num(0)

C25_CopiesWhenTruthy ==
    HelperReturned("unifiedToIosOptions") =>
        /\ \A k \in CopiedFields :
               IF TruthyField(k, Get(call.arg, k))
               THEN k \in DOMAIN ret[1] /\ ret[1][k] = call.arg[k]
               ELSE k \notin DOMAIN ret[1]
        /\ Get(ret[1], "usesLanguageCorrection") = Some(TRUE)

\* an empty language list was copied and a maxCandidates of 0 was dropped
C25_Witness ==
    /\ HelperReturned("unifiedToIosOptions")
    /\ Get(call.arg, "recognitionLanguages") = Some(<<>>)
    /\ Get(call.arg, "maxCandidates") = Some(Num(0))
    /\ Get(ret[1], "recognitionLanguages") = Some(<<>>)
    /\ "maxCandidates" \notin DOMAIN ret[1]

(***************************************************************************)
(* C26.  iosResultToUnified maps observations to regions one to one and in *)
(* order: there are as many regions as observations, region i has the      *)
(* bounding box visionToUnifiedBoundingBox(box of observation i,           *)
(* imageSize), the candidates of observation i in the same order, the text *)
(* and confidence of its first candidate, and text '' and confidence 0     *)
(* when observation i has no candidates.                                   *)
(***************************************************************************)
C26_ObservationsOneToOne ==
    AdapterReturned("iosResultToUnified") =>
        LET observations == call.arg.observations
            regions == ret[1].regions
        IN  /\ Len(regions) = Len(observations)
            /\ \A i \in 1..Len(regions) :
                   LET region == regions[i]
                       observation == observations[i]
                   IN  /\ region.boundingBox =
                              visionToUnifiedBoundingBox(observation.boundingBox,
                                                         call.arg.imageSize)
                       /\ Len(region.candidates) = Len(observation.candidates)
                       /\ \A k \in 1..Len(region.candidates) :
                              /\ region.candidates[k].text = observation.candidates[k].text
                              /\ region.candidates[k].confidence =
                                     observation.candidates[k].confidence
                       /\ IF observation.candidates = <<>>
                          THEN region.text = <<>> /\ region.confidence = Num(0)
                          ELSE /\ region.text = observation.candidates[1].text
                               /\ region.confidence = observation.candidates[1].confidence

\* two observations were adapted, the first without candidates, the second
\* with two
C26_Witness ==
    /\ AdapterReturned("iosResultToUnified")
    /\ Len(ret[1].regions) = 2
    /\ ret[1].regions[1].candidates = <<>>
    /\ ret[1].regions[1].text = <<>>
    /\ Len(ret[1].regions[2].candidates) = 2
    /\ ret[1].regions[2].text = <<"b", "c">>
    /\ ret[1].regions[1].boundingBox # ret[1].regions[2].boundingBox

(***************************************************************************)
(* C27.  For every region of a result of androidResultToUnified, the       *)
(* region's confidence and its single candidate's confidence both equal    *)
(* the native element's confidence whenever the element carries one (any   *)
(* value in [0, 1], 0 included), and equal 1 only when the element carries *)
(* none.  (The statement as claimed; it fails for a confidence of 0.)      *)
(***************************************************************************)
C27_ConfidenceFromElement ==
    AdapterReturned("androidResultToUnified") =>
        LET boxed == SelectSeq(ElementsOfBlocks(call.arg.blocks), HasBoundingBox)
            regions == ret[1].regions
        IN  \A i \in 1..Len(regions) :
                LET expected == IF boxed[i].confidence # Undefined
                                THEN boxed[i].confidence[1] ELSE Num(1)
                IN  /\ regions[i].confidence = expected
                    /\ regions[i].candidates[1].confidence = expected

(***************************************************************************)
(* C28.  The region-of-interest conversion does not depend on the image    *)
(* dimensions: unifiedToVisionBoundingBox gives the same box for every     *)
(* image size, so in the iOS two-pass flow the regionOfInterest of the     *)
(* first call (made with the 1x1 placeholder) equals that of the second    *)
(* call, and when minimumTextHeight is unset the two native calls receive  *)
(* identical options.                                                      *)
(***************************************************************************)
C28_RegionOfInterestSizeIndependent ==
    \A i \in Invocations :
        (IsAdvanced(i) /\ platform = "ios" /\ Len(inv[i].calls) >= 1) =>
            LET f == inv[i]
                first == f.calls[1].options
            IN  /\ CallerSet(f.options, "regionOfInterest") =>
                       \A size \in RawImageSizes \cup ImageSizes :
                           unifiedToVisionBoundingBox(f.options[1]["regionOfInterest"][1],
                                                      size)
                               = first["regionOfInterest"][1]
                /\ Len(f.calls) = 2 =>
                       /\ Get(f.calls[2].options, "regionOfInterest")
                              = Get(first, "regionOfInterest")
                       /\ ~CallerSet(f.options, "minimumTextHeight") =>
                              f.calls[2].options = first

\* both native calls were made with a region of interest, the second after a
\* first result whose image is not the placeholder's size
C28_Witness ==
    /\ platform = "ios"
    /\ IsAdvanced(1)
    /\ CallerSet(inv[1].options, "regionOfInterest")
    /\ Len(inv[1].calls) = 2
    /\ inv[1].replies[1].value.imageSize = [width |-> Num(2), height |-> Num(4)]
    /\ inv[1].calls[1].options = inv[1].calls[2].options
    /\ "regionOfInterest" \in DOMAIN inv[1].calls[2].options

(***************************************************************************)
(* C29.  minimumTextHeight round trip on iOS: for an integer pixel value   *)
(* m >= 1 and an image height H > 0, unifiedToIosOptions yields            *)
(* minimumTextHeight = m / H, and when the native result echoes that value *)
(* with imageSize.height = H, iosResultToUnified reports                   *)
(* effectiveOptions.minimumTextHeight = m; when the echo carries no        *)
(* minimumTextHeight the reported field is absent.                         *)
(***************************************************************************)
IsPixelCount(o) == o # Undefined /\ IsInteger(o[1]) /\ o[1][1] >= 1

C29_MinimumTextHeightRoundTrip ==
    /\ HelperReturned("unifiedToIosOptions")
           /\ IsPixelCount(Get(call.arg, "minimumTextHeight")) =>
           Get(ret[1], "minimumTextHeight") =
               Some(Div(call.arg["minimumTextHeight"][1], call.imageSize.height))
    /\ AdapterReturned("iosResultToUnified") /\ "request" \in DOMAIN call =>
           LET echo == Get(call.arg.effectiveRequest, "minimumTextHeight")
               reported == ret[1].effectiveOptions.minimumTextHeight
           IN  /\ echo = Undefined => reported = Undefined
               /\ echo # Undefined
                      /\ IsPixelCount(Get(call.request, "minimumTextHeight")) =>
                      reported = call.request["minimumTextHeight"]

\* 1 pixel on an image 13 high went out as a quotient that is not exact, came
\* back in the echo, gave a product below 1, and was reported as 1 again
C29_Witness ==
    /\ AdapterReturned("iosResultToUnified")
    /\ "request" \in DOMAIN call
    /\ Get(call.request, "minimumTextHeight") = Some(Num(1))
    /\ call.arg.imageSize.height = Num(13)
    /\ Get(call.arg.effectiveRequest, "minimumTextHeight") # Undefined
    /\ ~IsInteger(Mul(call.arg.effectiveRequest["minimumTextHeight"][1], Num(13)))
    /\ ret[1].effectiveOptions.minimumTextHeight = Some(Num(1))

(***************************************************************************)
(* C30.  A zero-size image is never reported as an error: for              *)
(* imageSize.width = 0 or imageSize.height = 0, visionToUnifiedBoundingBox,*)
(* mlkitToUnifiedBoundingBox, mlkitToUnifiedPoints and both result         *)
(* adapters return, and every box or point they produce for that image has *)
(* a coordinate value that is not finite.  (The statement as claimed; it   *)
(* fails for the Vision helper and the iOS adapter.)                       *)
(***************************************************************************)
HasNonFinite(coords) == \E k \in DOMAIN coords : ~IsFinite(coords[k])

AllFinite(coords) == \A k \in DOMAIN coords : IsFinite(coords[k])

BoxFields ==
    {"x", "y", "width", "height", "xPercent", "yPercent", "widthPercent", "heightPercent"}

C30_ZeroSizeNonFinite ==
    /\ (HelperReturned("visionToUnifiedBoundingBox")
           \/ HelperReturned("mlkitToUnifiedBoundingBox")) =>
           DOMAIN ret[1] = BoxFields /\ HasNonFinite(ret[1])
    /\ HelperReturned("mlkitToUnifiedPoints") =>
           \A i \in 1..Len(ret[1]) : HasNonFinite(ret[1][i])
    /\ (AdapterReturned("iosResultToUnified")
           \/ AdapterReturned("androidResultToUnified")) =>
           \A i \in 1..Len(ret[1].regions) : HasNonFinite(ret[1].regions[i].boundingBox)

(***************************************************************************)
(* C30, amended.  For imageSize.width = 0 or imageSize.height = 0 all five *)
(* functions return.  The ML Kit side divides by the image size: in every  *)
(* box and point of mlkitToUnifiedBoundingBox, mlkitToUnifiedPoints and    *)
(* androidResultToUnified the percent fields along a dimension of size 0   *)
(* are not finite (Infinity, or NaN for a coordinate of 0), the percent    *)
(* fields along a dimension that is not 0 and all pixel fields are finite. *)
(* The Vision side only multiplies by the image size: every box of         *)
(* visionToUnifiedBoundingBox and iosResultToUnified is finite throughout, *)
(* with pixel fields 0 along a dimension of size 0 and the percent fields  *)
(* of the normalized input.                                                *)
(***************************************************************************)
AlongWidth == {"xPercent", "widthPercent"}

AlongHeight == {"yPercent", "heightPercent"}

\* a box or point of the ML Kit side for an image of this size
MlkitZeroSizeShape(coords, imageSize) ==
    \A k \in DOMAIN coords :
        IsFinite(coords[k]) <=>
            ~ \/ k \in AlongWidth /\ imageSize.width = Num(0)
              \/ k \in AlongHeight /\ imageSize.height = Num(0)

\* a box of the Vision side for an image of this size
VisionZeroSizeShape(box, visionBox, imageSize) ==
    /\ DOMAIN box = BoxFields
    /\ AllFinite(box)
    /\ imageSize.width = Num(0) => box.x = Num(0) /\ box.width = Num(0)
    /\ imageSize.height = Num(0) => box.y = Num(0) /\ box.height = Num(0)
    /\ box.xPercent = visionBox.x
    /\ box.widthPercent = visionBox.width
    /\ box.heightPercent = visionBox.height

C30_ZeroSizeSilent ==
    /\ HelperReturned("visionToUnifiedBoundingBox") =>
           VisionZeroSizeShape(ret[1], call.arg, call.imageSize)
    /\ HelperReturned("mlkitToUnifiedBoundingBox") =>
           DOMAIN ret[1] = BoxFields /\ MlkitZeroSizeShape(ret[1], call.imageSize)
    /\ HelperReturned("mlkitToUnifiedPoints") =>
           /\ Len(ret[1]) = Len(call.arg)
           /\ \A i \in 1..Len(ret[1]) : MlkitZeroSizeShape(ret[1][i], call.imageSize)
    /\ AdapterReturned("iosResultToUnified") =>
           /\ Len(ret[1].regions) = Len(call.arg.observations)
           /\ \A i \in 1..Len(ret[1].regions) :
                  VisionZeroSizeShape(ret[1].regions[i].boundingBox,
                                      call.arg.observations[i].boundingBox,
                                      call.arg.imageSize)
    /\ AdapterReturned("androidResultToUnified") =>
           /\ ret[1].performance.regionsDetected = Len(ret[1].regions)
           /\ \A i \in 1..Len(ret[1].regions) :
                  /\ MlkitZeroSizeShape(ret[1].regions[i].boundingBox, call.arg.imageSize)
                  /\ \A c \in 1..Len(ret[1].regions[i].cornerPoints[1]) :
                         MlkitZeroSizeShape(ret[1].regions[i].cornerPoints[1][c],
                                            call.arg.imageSize)

\* the Android adapter returned a region for an image of size 0 x 0: the
\* element at x = 1, y = 0 has xPercent Infinity and yPercent NaN
C30_Witness ==
    /\ AdapterReturned("androidResultToUnified")
    /\ call.arg.imageSize = [width |-> Num(0), height |-> Num(0)]
    /\ Len(ret[1].regions) = 1
    /\ ret[1].regions[1].boundingBox.x = Num(1)
    /\ ret[1].regions[1].boundingBox.xPercent = Infinity
    /\ ret[1].regions[1].boundingBox.yPercent = NaN

=============================================================================
